---- MODULE Spec2Model ----
(***************************************************************************)
(* Discovery sessions of capacitor-mdns, as implemented by its four        *)
(* bindings:                                                               *)
(*   "p3"   src/unnamed/part_003        (Swift MDNS with ServiceBox)        *)
(*   "ios"  src/ios/Sources/mDNSPlugin/mDNS.swift (Swift MDNS, found map)  *)
(*   "and"  src/android/.../mDNS.kt     (NsdManager)                        *)
(*   "el"   src/electron/mdns.ts        (bonjour-service)                   *)
(* One behaviour runs one binding and, on iOS, one browse path (platform  *)
(* and useNW are fixed by Init).  The                                      *)
(* transport (browse events, resolve completions) and the timers are the   *)
(* environment: every handler of the code is one action.                   *)
(*                                                                         *)
(* Transport assumptions, stated once:                                     *)
(*  - a stopped or failed browse emits no further found/lost events;       *)
(*  - on iOS a NetService that the manager no longer references (removed   *)
(*    from resolveMap / found) is deallocated and its resolve never calls  *)
(*    back; NsdManager keeps its resolve listeners, so on Android a        *)
(*    resolve started by a finished call may still complete;               *)
(*  - timers carry no durations: a scheduled timer may fire at any later   *)
(*    step unless it was cancelled first.                                  *)
(***************************************************************************)
EXTENDS Integers, Sequences, FiniteSets, TLC

\* ---- bounds ------------------------------------------------------------
MaxCalls == 2      \* discover calls issued in one behaviour
MaxFound == 2      \* candidates the transport has the bindings resolve in one behaviour
MaxStarts == 2     \* startBroadcast calls issued in one behaviour
MaxStops == 2      \* stopBroadcast calls issued in one behaviour
MaxCloses == 2     \* close / dispose calls issued in one behaviour

\* ---- names, targets, resolve outcomes -----------------------------------
\* A name is a sequence of characters.
NameA  == <<"A">>
NameA2 == <<"A", " ", "(", "2", ")">>
NameB  == <<"B">>
Names  == {NameA, NameA2, NameB}

\* The request's optional name filter: absent/null, or a string.
Nil     == [isNil |-> TRUE,  s |-> <<>>]
Some(s) == [isNil |-> FALSE, s |-> s]
Targets == {Nil, Some(<<>>), Some(NameA)}

\* What a successful resolve reports: a port and the first host address.
Outcomes == {[port |-> 80, host |-> "h1"], [port |-> 80, host |-> "h2"],
             [port |-> 81, host |-> "h1"]}
NoHost == ""       \* `hosts.first ?? ""`, `s.host?.hostAddress` null

Platforms == {"p3", "ios", "and", "el"}
Calls == 1..MaxCalls
Starts == 1..MaxStarts
Stops == 1..MaxStops
Closes == 1..MaxCloses

Digits == {"0", "1", "2", "3", "4", "5", "6", "7", "8", "9"}

\* s[i..] is " (" digits+ ")" reaching the end of s: the regex / \(\d+\)$/ at i.
SuffixAt(s, i) ==
    /\ i >= 1
    /\ Len(s) - i + 1 >= 4
    /\ s[i] = " "
    /\ s[i + 1] = "("
    /\ s[Len(s)] = ")"
    /\ \A j \in (i + 2)..(Len(s) - 1) : s[j] \in Digits

\* name.replace(/ \(\d+\)$/, '')
normalize(s) ==
    IF \E i \in 1..Len(s) : SuffixAt(s, i)
    THEN SubSeq(s, 1, (CHOOSE i \in 1..Len(s) : SuffixAt(s, i)) - 1)
    ELSE s

\* c.startsWith(t) / c.hasPrefix(t)
hasPrefix(c, t) == Len(t) <= Len(c) /\ SubSeq(c, 1, Len(t)) = t

\* String.trim(): leading and trailing blanks removed.
RECURSIVE trimLeft(_)
trimLeft(s) == IF s # <<>> /\ Head(s) = " " THEN trimLeft(Tail(s)) ELSE s
RECURSIVE trimRight(_)
trimRight(s) ==
    IF s # <<>> /\ s[Len(s)] = " " THEN trimRight(SubSeq(s, 1, Len(s) - 1)) ELSE s
trim(s) == trimRight(trimLeft(s))

\* part_003 matchesTarget: nil or empty target accepts all.
P3_matchesTarget(candidate, t) ==
    IF t.isNil \/ t.s = <<>> THEN TRUE
    ELSE LET c == normalize(candidate)
             tt == normalize(t.s)
         IN (c = tt) \/ hasPrefix(c, tt)

\* A variant of IOS_matchesTarget without the prefix test.
IOS_matchesTarget_exact(candidate, t) ==
    IF t.isNil THEN TRUE ELSE normalize(candidate) = normalize(t.s)

\* ios/Sources matchesTarget: only a nil target accepts all by the guard.
IOS_matchesTarget(candidate, t) ==
    IF t.isNil THEN TRUE
    ELSE LET c1 == normalize(candidate)
             c2 == normalize(t.s)
         IN (c1 = c2) \/ hasPrefix(c1, c2)

\* Android matchesTarget: `normalize(targetName ?: return true)`.
AND_matchesTarget(candidate, t) ==
    IF t.isNil THEN TRUE
    ELSE LET c == normalize(candidate)
             tt == normalize(t.s)
         IN (c = tt) \/ hasPrefix(c, tt)

\* Electron matchesTarget: `if (!target) return true` (undefined, null, '').
EL_matchesTarget(candidate, t) ==
    IF t.isNil \/ t.s = <<>> THEN TRUE
    ELSE LET c == normalize(candidate)
             tt == normalize(t.s)
         IN (c = tt) \/ hasPrefix(c, tt)

\* Electron: `const targetId = opts.id?.trim()`.
EL_targetId(t) == IF t.isNil THEN Nil ELSE Some(trim(t.s))

\* ---- state ---------------------------------------------------------------
VARIABLES
    platform,           \* the binding this behaviour runs
    useNW,              \* iOS: NWBrowser path (TRUE) or NetServiceBrowser path
    nCalls,             \* discover calls issued so far
    target,             \* [Calls -> Targets]: the `name` of each request
    delivered,          \* [Calls -> Nat]: times the call's completion ran
    last,               \* [call, services]: the latest result delivered
    resolvedOk,         \* [Calls -> set of record]: resolves of the call that
                        \* succeeded while the call was not yet completed
    browse,             \* [Calls -> "none"|"active"|"stopped"|"failed"]
    resolvers,          \* Seq of resolve attempts [call, name, st, port, host]
    events,             \* candidates handed to the binding so far
    hard,               \* [Calls -> "none"|"scheduled"|"fired"|"cancelled"]
    \* part_003 MDNS members
    discovered,         \* Seq of ServiceBox [name, port, host, resolved];
                        \* box i was created with resolver i
    resolveMap,         \* set of i: resolver i is a key (its value is box i)
    targetName,
    discoverCompletion, \* call whose completion is stored, 0 = nil
    hardTimeout,        \* call whose hard work item is stored, 0 = nil
    settleDebounce,     \* TRUE while a settle work item is scheduled
    nwBrowser,          \* call whose NWBrowser is stored, 0 = nil
    nsBrowser,          \* call whose NetServiceBrowser is stored, 0 = nil
    \* ios/Sources MDNS members
    found,              \* set of [name, rid]: name -> NetService (resolver index)
    resolveRemaining,
    discoveryCompletion,
    targetId,
    hardTimeoutWorkItem,
    settleWorkItem,     \* [sched, filterName]
    browser,
    \* Android: locals of each discover call, and the manager's reference
    foundList,          \* [Calls -> Seq(record)]: `found`
    deferred,           \* [Calls -> "none"|"pending"|"completed"|"returned"]
    discListenerRef,    \* call whose listener is referenced, 0 = null
    \* Electron: locals of each discover call
    services,           \* [Calls -> Seq(record)]
    finished,           \* [Calls -> BOOLEAN]
    lateFound,          \* iOS: a resolve was started after the settle item that is
                        \* scheduled now was scheduled
    nStarts,            \* startBroadcast calls issued so far
    nStops,             \* stopBroadcast calls issued so far
    net,                \* [Starts -> "none"|"publishing"|"up"|"failed"|"stopped"]:
                        \* what the transport holds of the service each start made
    startOut,           \* [Starts -> "none"|"success"|"failure"]: the outcome
                        \* handed to the start call's completion
    startCount,         \* [Starts -> Nat]: times the start call's completion ran
    startPc,            \* [Starts -> "none"|"inStop"|"stopped"|"resuming"|"pending"|"done"]
    stopPc,             \* [Stops -> "none"|"inStop"|"done"]
    overlap,            \* a call was issued while another was awaiting a stop
    publisher,          \* part_003: the start whose NetService is kept, or 0
    service,            \* ios: the start whose NetService is kept, or 0
    publishCompletion,  \* part_003 / ios: the start whose completion is kept, or 0
    regListenerRef,     \* Android: the start whose listener is kept, or 0
    advertiser,         \* Electron: the start whose Service is kept, or 0
    reqName,            \* [Starts -> Targets-like]: the name field of each start request
    reqPort,            \* [Starts -> Int]: the port field of each start request
    pubName,            \* [Starts -> name]: the instance name start i publishes under
    netName,            \* [Starts -> name]: the name the transport confirmed for service i
    startName,          \* [Starts -> name]: the name handed to the start call's completion
    fIn,                \* a name given to normalize / to a matcher as candidate
    fTgt,               \* a target given to the matchers
    fDone,              \* "none", or the function that was applied
    fNorm,              \* <<normalize(fIn), normalize(normalize(fIn))>>
    fMatch,             \* what each binding's matchesTarget answered
    fOpts,              \* the options of a discover request
    fSession,           \* the target and timeout each binding runs the request with
    fSvc,               \* a resolved service as the transport reports it
    fEntry,             \* the result record each binding builds for fSvc
    nCloses,            \* close() / dispose() calls issued so far
    closePc             \* [Closes -> "none"|"inStop"|"done"]: where each teardown is

envVars == <<platform, useNW, nCalls, target, delivered, last, resolvedOk, browse,
             resolvers, events, hard>>
p3Vars  == <<discovered, resolveMap, targetName, discoverCompletion, hardTimeout,
             settleDebounce, nsBrowser>>
iosVars == <<found, resolveRemaining, discoveryCompletion, targetId,
             hardTimeoutWorkItem, settleWorkItem, browser>>
andVars == <<foundList, deferred, discListenerRef>>
elVars  == <<services, finished>>
dVars == <<envVars, p3Vars, iosVars, andVars, elVars, nwBrowser, lateFound>>
callVars == <<nStarts, nStops, net, startOut, startCount, startPc, stopPc, overlap>>
refVars == <<publisher, service, publishCompletion, regListenerRef, advertiser>>
reqVars == <<reqName, reqPort, pubName>>
nameVars == <<netName, startName>>
bVars == <<callVars, refVars, reqVars, nameVars>>
fVars == <<fIn, fTgt, fDone, fNorm, fMatch, fOpts, fSession, fSvc, fEntry>>
tVars == <<nCloses, closePc>>
vars == <<dVars, bVars, fVars, tVars>>

Record(n, p, h) == [name |-> n, port |-> p, host |-> h]

NoResult == [call |-> 0, services |-> <<>>]

\* An optional number of a request: absent, or a value.
NoNum == [isNil |-> TRUE, v |-> 0]
Num(v) == [isNil |-> FALSE, v |-> v]

\* The options of a request with no field present.
NoOptions == [name |-> Nil, timeout |-> NoNum, id |-> Nil, timeoutMs |-> NoNum]

NoSession == [target |-> Nil, timeoutMs |-> 0]

\* No service reported, no record built.
NoService == [requested |-> <<>>, type |-> <<>>, addresses |-> <<>>, nw |-> FALSE]
NoEntry == [type |-> <<>>]

\* No name has been normalized or matched, no options read.
NoApplication ==
    /\ fDone = "none"
    /\ fNorm = <<<<>>, <<>>>>
    /\ fMatch = [p3 |-> FALSE, ios |-> FALSE, and |-> FALSE, el |-> FALSE]
    /\ fSession = [b \in Platforms |-> NoSession]
    /\ fSvc = NoService
    /\ fEntry = [b \in Platforms |-> NoEntry]

\* A manager after construction, with no call made.
Constructed ==
    /\ nCalls = 0
    /\ target = [c \in Calls |-> Nil]
    /\ delivered = [c \in Calls |-> 0]
    /\ last = NoResult
    /\ resolvedOk = [c \in Calls |-> {}]
    /\ browse = [c \in Calls |-> "none"]
    /\ resolvers = <<>>
    /\ events = 0
    /\ hard = [c \in Calls |-> "none"]
    /\ discovered = <<>>
    /\ resolveMap = {}
    /\ targetName = Nil
    /\ discoverCompletion = 0
    /\ hardTimeout = 0
    /\ settleDebounce = FALSE
    /\ nwBrowser = 0
    /\ nsBrowser = 0
    /\ found = {}
    /\ resolveRemaining = 0
    /\ discoveryCompletion = 0
    /\ targetId = Nil
    /\ hardTimeoutWorkItem = 0
    /\ settleWorkItem = [sched |-> FALSE, filterName |-> Nil]
    /\ browser = 0
    /\ foundList = [c \in Calls |-> <<>>]
    /\ deferred = [c \in Calls |-> "none"]
    /\ discListenerRef = 0
    /\ services = [c \in Calls |-> <<>>]
    /\ finished = [c \in Calls |-> FALSE]
    /\ lateFound = FALSE
    /\ nCloses = 0
    /\ closePc = [k \in Closes |-> "none"]
    /\ nStarts = 0
    /\ nStops = 0
    /\ net = [i \in Starts |-> "none"]
    /\ startOut = [i \in Starts |-> "none"]
    /\ startCount = [i \in Starts |-> 0]
    /\ startPc = [i \in Starts |-> "none"]
    /\ stopPc = [k \in Stops |-> "none"]
    /\ overlap = FALSE
    /\ publisher = 0
    /\ service = 0
    /\ publishCompletion = 0
    /\ regListenerRef = 0
    /\ advertiser = 0
    /\ reqName = [i \in Starts |-> Nil]
    /\ reqPort = [i \in Starts |-> 0]
    /\ pubName = [i \in Starts |-> <<>>]
    /\ netName = [i \in Starts |-> <<>>]
    /\ startName = [i \in Starts |-> <<>>]

Init ==
    /\ platform \in Platforms
    /\ useNW \in (IF platform \in {"p3", "ios"} THEN BOOLEAN ELSE {FALSE})
    /\ Constructed
    /\ fIn = <<>>
    /\ fTgt = Nil
    /\ fOpts = NoOptions
    /\ NoApplication

\* ---- helpers shared by the bindings ----------------------------------------
\* DispatchWorkItem.cancel() / Job.cancel() / clearTimeout: only a timer that
\* has not fired yet is cancelled.
CancelHard(h, c) ==
    IF c # 0 /\ h[c] = "scheduled" THEN [h EXCEPT ![c] = "cancelled"] ELSE h

\* A variant of StopBrowse: the listener stays registered.
StopBrowse_kept(b, c) == b

\* browser.cancel() / stop() / stopServiceDiscovery(listener) on call c's browse.
StopBrowse(b, c) ==
    IF c # 0 /\ b[c] = "active" THEN [b EXCEPT ![c] = "stopped"] ELSE b

\* A NetService / NsdServiceInfo being resolved; its port is -1 and it has no
\* address until the resolve succeeds.
NewResolver(c, n) ==
    [call |-> c, name |-> n, st |-> "pending", port |-> -1, host |-> NoHost]

\* A resolver the binding no longer references.
Dropped == [call |-> 0, name |-> <<>>, st |-> "dropped", port |-> -1, host |-> NoHost]
Release(res, rids) == [i \in DOMAIN res |-> IF i \in rids THEN Dropped ELSE res[i]]

RemoveAt(res, i) == SubSeq(res, 1, i - 1) \o SubSeq(res, i + 1, Len(res))

\* The elements of a finite set in some order (a dictionary's values).
RECURSIVE SetToSeq(_)
SetToSeq(S) ==
    IF S = {} THEN <<>>
    ELSE LET x == CHOOSE y \in S : TRUE IN <<x>> \o SetToSeq(S \ {x})


\* The transport hands the bindings at most MaxFound candidates.
MayFind == events < MaxFound

\* Bookkeeping of the calls in dead (completed or unreachable) is dropped when
\* the next call starts; the new call c gets the value v.
Start(f, dead, blank, c, v) ==
    [d \in Calls |-> IF d = c THEN v ELSE IF d \in dead THEN blank ELSE f[d]]

\* A resolve of call c succeeded with record rec: remembered while c is open.
NoteOk(c, rec) ==
    IF delivered[c] = 0 THEN [resolvedOk EXCEPT ![c] = @ \cup {rec}] ELSE resolvedOk

\* ---- part_003: MDNS ---------------------------------------------------------
\* finishDiscovery's loop: resolved boxes, deduplicated by "name:port:host0".
RECURSIVE P3_collect(_, _, _)
P3_collect(boxes, seen, out) ==
    IF boxes = <<>> THEN out
    ELSE LET box == Head(boxes)
             key == <<box.name, box.port, box.host>>
         IN IF ~box.resolved \/ key \in seen
            THEN P3_collect(Tail(boxes), seen, out)
            ELSE P3_collect(Tail(boxes), seen \cup {key},
                            Append(out, Record(box.name, box.port, box.host)))

\* A variant of P3_finishDiscovery: the result is built from the boxes as they
\* were before the calling handler filled in the one it resolved.
P3_finishDiscovery_stale(h, b, disc) ==
    /\ hard' = CancelHard(h, hardTimeout)
    /\ hardTimeout' = 0
    /\ settleDebounce' = FALSE
    /\ browse' = StopBrowse(StopBrowse(b, nwBrowser), nsBrowser)
    /\ nwBrowser' = 0
    /\ nsBrowser' = 0
    /\ resolvers' = <<>>
    /\ resolveMap' = {}
    /\ discovered' = <<>>
    /\ targetName' = Nil
    /\ discoverCompletion' = 0
    /\ IF discoverCompletion # 0
       THEN /\ delivered' = [delivered EXCEPT ![discoverCompletion] = @ + 1]
            /\ last' = [call |-> discoverCompletion,
                        services |-> P3_collect(discovered, {}, <<>>)]
       ELSE UNCHANGED <<delivered, last>>
    /\ lateFound' = FALSE

\* finishDiscovery(), entered with the timers h, the browses b and the boxes
\* disc as the calling handler left them.  resolveMap.removeAll() releases the
\* session's resolvers.
P3_finishDiscovery(h, b, disc) ==
    /\ hard' = CancelHard(h, hardTimeout)
    /\ hardTimeout' = 0
    /\ settleDebounce' = FALSE
    /\ browse' = StopBrowse(StopBrowse(b, nwBrowser), nsBrowser)
    /\ nwBrowser' = 0
    /\ nsBrowser' = 0
    /\ resolvers' = <<>>
    /\ resolveMap' = {}
    /\ discovered' = <<>>
    /\ targetName' = Nil
    /\ discoverCompletion' = 0
    /\ IF discoverCompletion # 0
       THEN /\ delivered' = [delivered EXCEPT ![discoverCompletion] = @ + 1]
            /\ last' = [call |-> discoverCompletion,
                        services |-> P3_collect(disc, {}, <<>>)]
       ELSE UNCHANGED <<delivered, last>>
    /\ lateFound' = FALSE

P3_discover(name) ==
    /\ platform = "p3"
    /\ UNCHANGED <<bVars, fVars, tVars>>  \* advertising is untouched
    /\ nCalls < MaxCalls
    /\ LET c == nCalls + 1 IN
        /\ nCalls' = c
        /\ target' = Start(target, Calls, Nil, c, name)
        /\ resolvedOk' = Start(resolvedOk, Calls, {}, c, {})
        /\ last' = NoResult
        /\ hard' = [CancelHard(hard, hardTimeout) EXCEPT ![c] = "scheduled"]
        /\ settleDebounce' = FALSE
        /\ browse' = [StopBrowse(StopBrowse(browse, nwBrowser), nsBrowser)
                        EXCEPT ![c] = "active"]
        /\ resolvers' = <<>>
        /\ resolveMap' = {}
        /\ discovered' = <<>>
        /\ targetName' = name
        /\ discoverCompletion' = c
        /\ hardTimeout' = c
        /\ nwBrowser' = IF useNW THEN c ELSE 0
        /\ nsBrowser' = IF useNW THEN 0 ELSE c
    /\ UNCHANGED <<platform, useNW, delivered, events, iosVars, andVars, elVars>>
    /\ lateFound' = FALSE

\* A found candidate gets a resolver and a box (both browse paths).
P3_track(c, name) ==
    /\ events' = events + 1
    /\ resolvers' = Append(resolvers, NewResolver(c, name))
    /\ discovered' = Append(discovered,
            [name |-> name, port |-> 0, host |-> NoHost, resolved |-> FALSE])
    /\ resolveMap' = resolveMap \cup {Len(resolvers) + 1}

\* browseResultsChangedHandler, one result: the endpoint reports its type with
\* or without the trailing dot (typeDot) and its domain empty or not (domEmpty).
\* keyFor(n, t, d) is compared with the identityKey of boxes, whose type is
\* dot-terminated and whose domain is never empty.
P3_browseResultsChanged(name, typeDot, domEmpty) ==
    /\ platform = "p3"
    /\ UNCHANGED <<bVars, fVars, tVars>>  \* advertising is untouched
    /\ nwBrowser # 0
    /\ browse[nwBrowser] = "active"
    /\ MayFind
    /\ IF ~P3_matchesTarget(name, targetName)
       THEN UNCHANGED <<events, resolvers, discovered, resolveMap, settleDebounce>>
       ELSE IF \E i \in DOMAIN discovered :
                    discovered[i].name = name /\ typeDot /\ ~domEmpty
       THEN UNCHANGED <<events, resolvers, discovered, resolveMap, settleDebounce>>
       ELSE /\ P3_track(nwBrowser, name)
            /\ settleDebounce' = TRUE
    /\ UNCHANGED <<platform, useNW, nCalls, target, delivered, last, resolvedOk,
                   browse, hard, targetName, discoverCompletion, hardTimeout,
                   nwBrowser, nsBrowser, iosVars, andVars, elVars>>
    /\ lateFound' = (IF settleDebounce' = settleDebounce /\ resolvers' = resolvers
                     THEN lateFound ELSE FALSE)

\* netServiceBrowser(_:didFind:moreComing:)
P3_didFind(name, moreComing) ==
    /\ platform = "p3"
    /\ UNCHANGED <<bVars, fVars, tVars>>  \* advertising is untouched
    /\ nsBrowser # 0
    /\ browse[nsBrowser] = "active"
    /\ MayFind
    /\ IF ~P3_matchesTarget(name, targetName)
       THEN UNCHANGED <<events, resolvers, discovered, resolveMap, settleDebounce>>
       ELSE /\ P3_track(nsBrowser, name)
            /\ settleDebounce' = (IF moreComing THEN settleDebounce ELSE TRUE)
    /\ UNCHANGED <<platform, useNW, nCalls, target, delivered, last, resolvedOk,
                   browse, hard, targetName, discoverCompletion, hardTimeout,
                   nwBrowser, nsBrowser, iosVars, andVars, elVars>>
    /\ lateFound' = (IF resolvers' = resolvers THEN lateFound
                     ELSE moreComing /\ settleDebounce)

\* netServiceDidResolveAddress(_:)
P3_didResolve(r, o) ==
    /\ platform = "p3"
    /\ UNCHANGED <<bVars, fVars, tVars>>  \* advertising is untouched
    /\ r \in DOMAIN resolvers
    /\ resolvers[r].st = "pending"
    /\ resolvedOk' = NoteOk(resolvers[r].call, Record(resolvers[r].name, o.port, o.host))
    /\ LET res == [resolvers EXCEPT ![r] =
                        [@ EXCEPT !.st = "ok", !.port = o.port, !.host = o.host]]
       IN IF r \notin resolveMap
          THEN /\ resolvers' = res
               /\ UNCHANGED <<delivered, last, browse, hard, p3Vars, nwBrowser, lateFound>>
          ELSE LET disc == [discovered EXCEPT ![r] =
                        [@ EXCEPT !.port = o.port, !.host = o.host, !.resolved = TRUE]]
               IN IF ~targetName.isNil /\ targetName.s # <<>>
                     /\ P3_matchesTarget(resolvers[r].name, targetName)
                  THEN P3_finishDiscovery(hard, browse, disc)
                  ELSE /\ resolvers' = res
                       /\ discovered' = disc
                       /\ settleDebounce' = TRUE
                       /\ lateFound' = FALSE
                       /\ UNCHANGED <<delivered, last, browse, hard, resolveMap,
                                      targetName, discoverCompletion, hardTimeout,
                                      nwBrowser, nsBrowser>>
    /\ UNCHANGED <<platform, useNW, nCalls, target, events, iosVars, andVars, elVars>>

\* netService(_:didNotResolve:)
P3_didNotResolve(r) ==
    /\ platform = "p3"
    /\ UNCHANGED <<bVars, fVars, tVars>>  \* advertising is untouched
    /\ r \in DOMAIN resolvers
    /\ resolvers[r].st = "pending"
    /\ resolvers' = [resolvers EXCEPT ![r] = [@ EXCEPT !.st = "failed"]]
    /\ resolveMap' = resolveMap \ {r}
    /\ settleDebounce' = TRUE
    /\ UNCHANGED <<platform, useNW, nCalls, target, delivered, last, resolvedOk,
                   browse, events, hard, discovered, targetName, discoverCompletion,
                   hardTimeout, nwBrowser, nsBrowser, iosVars, andVars, elVars>>
    /\ lateFound' = FALSE

\* netServiceBrowser(_:didNotSearch:)
P3_didNotSearch ==
    /\ platform = "p3"
    /\ UNCHANGED <<bVars, fVars, tVars>>  \* advertising is untouched
    /\ nsBrowser # 0
    /\ browse[nsBrowser] = "active"
    /\ P3_finishDiscovery(hard, [browse EXCEPT ![nsBrowser] = "failed"], discovered)
    /\ UNCHANGED <<platform, useNW, nCalls, target, resolvedOk, events,
                   iosVars, andVars, elVars>>

\* NWBrowser stateUpdateHandler, .failed: nothing is done.
P3_stateFailed ==
    /\ platform = "p3"
    /\ UNCHANGED <<bVars, fVars, tVars, lateFound>>  \* advertising is untouched
    /\ nwBrowser # 0
    /\ browse[nwBrowser] = "active"
    /\ browse' = [browse EXCEPT ![nwBrowser] = "failed"]
    /\ UNCHANGED <<platform, useNW, nCalls, target, delivered, last, resolvedOk,
                   resolvers, events, hard, p3Vars, nwBrowser, iosVars, andVars, elVars>>

\* The hard-timeout work item of call c runs.
P3_hardTimeoutFires(c) ==
    /\ platform = "p3"
    /\ UNCHANGED <<bVars, fVars, tVars>>  \* advertising is untouched
    /\ hard[c] = "scheduled"
    /\ P3_finishDiscovery([hard EXCEPT ![c] = "fired"], browse, discovered)
    /\ UNCHANGED <<platform, useNW, nCalls, target, resolvedOk, events,
                   iosVars, andVars, elVars>>

\* The settle work item runs.
P3_settleFires ==
    /\ platform = "p3"
    /\ UNCHANGED <<bVars, fVars, tVars>>  \* advertising is untouched
    /\ settleDebounce
    /\ P3_finishDiscovery(hard, browse, discovered)
    /\ UNCHANGED <<platform, useNW, nCalls, target, resolvedOk, events,
                   iosVars, andVars, elVars>>

P3_Next ==
    \/ \E name \in Targets : P3_discover(name)
    \/ \E name \in Names, typeDot \in BOOLEAN, domEmpty \in BOOLEAN :
            P3_browseResultsChanged(name, typeDot, domEmpty)
    \/ \E name \in Names, moreComing \in BOOLEAN : P3_didFind(name, moreComing)
    \/ \E r \in DOMAIN resolvers, o \in Outcomes : P3_didResolve(r, o)
    \/ \E r \in DOMAIN resolvers : P3_didNotResolve(r)
    \/ P3_didNotSearch
    \/ P3_stateFailed
    \/ \E c \in Calls : P3_hardTimeoutFires(c)
    \/ P3_settleFires

\* ---- ios/Sources/mDNSPlugin/mDNS.swift: MDNS ---------------------------------
SettleOff == [sched |-> FALSE, filterName |-> Nil]

\* collectResults(filterName:): one record per NetService in found whose name
\* passes the filter, with the port and addresses the NetService has now.
IOS_collectResults(fnd, res, filterName) ==
    LET kept == {e \in fnd : IOS_matchesTarget(e.name, filterName)}
        rec(e) == Record(e.name, res[e.rid].port, res[e.rid].host)
    IN SetToSeq({rec(e) : e \in kept})

\* finish(filterName:), entered with the timers h, the browses b, the settle
\* item sw and the resolvers res as the calling handler left them.
IOS_finish(filterName, h, b, sw, res) ==
    IF discoveryCompletion = 0
    THEN /\ hard' = h
         /\ browse' = b
         /\ settleWorkItem' = sw
         /\ lateFound' = (sw.sched /\ lateFound)
         /\ UNCHANGED <<discoveryCompletion, targetId, hardTimeoutWorkItem,
                        nwBrowser, browser, delivered, last>>
    ELSE /\ discoveryCompletion' = 0
         /\ targetId' = Nil
         /\ hard' = CancelHard(h, hardTimeoutWorkItem)
         /\ hardTimeoutWorkItem' = 0
         /\ settleWorkItem' = SettleOff
         /\ lateFound' = FALSE
         /\ browse' = StopBrowse(StopBrowse(b, nwBrowser), browser)
         /\ nwBrowser' = 0
         /\ browser' = 0
         /\ delivered' = [delivered EXCEPT ![discoveryCompletion] = @ + 1]
         /\ last' = [call |-> discoveryCompletion,
                     services |-> IOS_collectResults(found, res, filterName)]

IOS_discover(id) ==
    /\ platform = "ios"
    /\ UNCHANGED <<bVars, fVars, tVars>>  \* advertising is untouched
    /\ nCalls < MaxCalls
    /\ LET c == nCalls + 1 IN
        /\ nCalls' = c
        /\ target' = Start(target, Calls, Nil, c, id)
        /\ resolvedOk' = Start(resolvedOk, Calls, {}, c, {})
        /\ last' = NoResult
        /\ hard' = [CancelHard(hard, hardTimeoutWorkItem) EXCEPT ![c] = "scheduled"]
        /\ settleWorkItem' = SettleOff
        /\ browse' = [StopBrowse(StopBrowse(browse, browser), nwBrowser)
                        EXCEPT ![c] = "active"]
        /\ found' = {}
        /\ resolvers' = <<>>
        /\ resolveRemaining' = 0
        /\ targetId' = id
        /\ discoveryCompletion' = c
        /\ nwBrowser' = IF useNW THEN c ELSE 0
        /\ browser' = IF useNW THEN 0 ELSE c
        /\ hardTimeoutWorkItem' = c
    /\ UNCHANGED <<platform, useNW, delivered, events, p3Vars, andVars, elVars>>
    /\ lateFound' = FALSE

\* browseResultsChangedHandler, one result; targetId is the closure's parameter,
\* the id of the call that started the browse.
IOS_browseResultsChanged(name) ==
    /\ platform = "ios"
    /\ UNCHANGED <<bVars, fVars, tVars>>  \* advertising is untouched
    /\ nwBrowser # 0
    /\ browse[nwBrowser] = "active"
    /\ MayFind
    /\ IF ~IOS_matchesTarget(name, target[nwBrowser])
          \/ (\E e \in found : e.name = name)
       THEN UNCHANGED <<events, resolvers, found, resolveRemaining, settleWorkItem>>
       ELSE /\ events' = events + 1
            /\ resolvers' = Append(resolvers, NewResolver(nwBrowser, name))
            /\ found' = found \cup {[name |-> name, rid |-> Len(resolvers) + 1]}
            /\ resolveRemaining' = resolveRemaining + 1
            /\ settleWorkItem' = [sched |-> TRUE, filterName |-> target[nwBrowser]]
    /\ UNCHANGED <<platform, useNW, nCalls, target, delivered, last, resolvedOk,
                   browse, hard, discoveryCompletion, targetId, hardTimeoutWorkItem,
                   browser, nwBrowser, p3Vars, andVars, elVars>>
    /\ lateFound' = (IF resolvers' = resolvers THEN lateFound ELSE FALSE)

\* netServiceBrowser(_:didFind:moreComing:): found[service.name] = service
\* replaces, and so releases, a NetService stored under the same name.
IOS_didFind(name, moreComing) ==
    /\ platform = "ios"
    /\ UNCHANGED <<bVars, fVars, tVars>>  \* advertising is untouched
    /\ browser # 0
    /\ browse[browser] = "active"
    /\ MayFind
    /\ events' = events + 1
    /\ LET old == {e \in found : e.name = name} IN
        /\ resolvers' = Append(Release(resolvers, {e.rid : e \in old}),
                               NewResolver(browser, name))
        /\ found' = (found \ old) \cup {[name |-> name, rid |-> Len(resolvers) + 1]}
    /\ resolveRemaining' = resolveRemaining + 1
    /\ settleWorkItem' = (IF moreComing THEN settleWorkItem
                          ELSE [sched |-> TRUE, filterName |-> targetId])
    /\ UNCHANGED <<platform, useNW, nCalls, target, delivered, last, resolvedOk,
                   browse, hard, discoveryCompletion, targetId, hardTimeoutWorkItem,
                   browser, nwBrowser, p3Vars, andVars, elVars>>
    /\ lateFound' = (moreComing /\ settleWorkItem.sched)

\* netServiceBrowser(_:didRemove:moreComing:)
IOS_didRemove(name) ==
    /\ platform = "ios"
    /\ UNCHANGED <<bVars, fVars, tVars, lateFound>>  \* advertising is untouched
    /\ browser # 0
    /\ browse[browser] = "active"
    /\ \E e \in found :
        /\ e.name = name
        /\ found' = found \ {e}
        /\ resolvers' = Release(resolvers, {e.rid})
    /\ UNCHANGED <<platform, useNW, nCalls, target, delivered, last, resolvedOk,
                   browse, events, hard, resolveRemaining, discoveryCompletion,
                   targetId, hardTimeoutWorkItem, settleWorkItem, browser, nwBrowser,
                   p3Vars, andVars, elVars>>

\* The tail shared by netServiceDidResolveAddress and didNotResolve.
IOS_afterResolve(name, res) ==
    /\ resolvers' = res
    /\ resolveRemaining' = (IF resolveRemaining - 1 > 0 THEN resolveRemaining - 1 ELSE 0)
    /\ IF IOS_matchesTarget(name, targetId) /\ discoveryCompletion # 0
       THEN IOS_finish(targetId, hard, browse, settleWorkItem, res)
       ELSE /\ settleWorkItem' = [sched |-> TRUE, filterName |-> targetId]
            /\ lateFound' = FALSE
            /\ UNCHANGED <<hard, browse, discoveryCompletion, targetId,
                           hardTimeoutWorkItem, nwBrowser, browser, delivered, last>>
    /\ UNCHANGED <<platform, useNW, nCalls, target, events, found,
                   p3Vars, andVars, elVars>>

\* netServiceDidResolveAddress(_:)
IOS_didResolve(r, o) ==
    /\ platform = "ios"
    /\ UNCHANGED <<bVars, fVars, tVars>>  \* advertising is untouched
    /\ r \in DOMAIN resolvers
    /\ resolvers[r].st = "pending"
    /\ resolvedOk' = NoteOk(resolvers[r].call, Record(resolvers[r].name, o.port, o.host))
    /\ IOS_afterResolve(resolvers[r].name,
            [resolvers EXCEPT ![r] =
                [@ EXCEPT !.st = "ok", !.port = o.port, !.host = o.host]])

\* netService(_:didNotResolve:)
IOS_didNotResolve(r) ==
    /\ platform = "ios"
    /\ UNCHANGED <<bVars, fVars, tVars>>  \* advertising is untouched
    /\ r \in DOMAIN resolvers
    /\ resolvers[r].st = "pending"
    /\ UNCHANGED resolvedOk
    /\ IOS_afterResolve(resolvers[r].name,
            [resolvers EXCEPT ![r] = [@ EXCEPT !.st = "failed"]])

\* netServiceBrowser(_:didNotSearch:)
IOS_didNotSearch ==
    /\ platform = "ios"
    /\ UNCHANGED <<bVars, fVars, tVars>>  \* advertising is untouched
    /\ browser # 0
    /\ browse[browser] = "active"
    /\ IOS_finish(targetId, hard, [browse EXCEPT ![browser] = "failed"],
                  settleWorkItem, resolvers)
    /\ UNCHANGED <<platform, useNW, nCalls, target, resolvedOk, resolvers, events,
                   found, resolveRemaining, p3Vars, andVars, elVars>>

\* NWBrowser stateUpdateHandler: the state is only logged.
IOS_stateFailed ==
    /\ platform = "ios"
    /\ UNCHANGED <<bVars, fVars, tVars, lateFound>>  \* advertising is untouched
    /\ nwBrowser # 0
    /\ browse[nwBrowser] = "active"
    /\ browse' = [browse EXCEPT ![nwBrowser] = "failed"]
    /\ UNCHANGED <<platform, useNW, nCalls, target, delivered, last, resolvedOk,
                   resolvers, events, hard, iosVars, nwBrowser, p3Vars, andVars, elVars>>

\* The work item of scheduleHardTimeout(timeoutMs, filterName: id) of call c runs.
IOS_hardTimeoutFires(c) ==
    /\ platform = "ios"
    /\ UNCHANGED <<bVars, fVars, tVars>>  \* advertising is untouched
    /\ hard[c] = "scheduled"
    /\ IOS_finish(target[c], [hard EXCEPT ![c] = "fired"], browse, settleWorkItem,
                  resolvers)
    /\ UNCHANGED <<platform, useNW, nCalls, target, resolvedOk, resolvers, events,
                   found, resolveRemaining, p3Vars, andVars, elVars>>

\* The work item of scheduleSettle runs.
IOS_settleFires ==
    /\ platform = "ios"
    /\ UNCHANGED <<bVars, fVars, tVars>>  \* advertising is untouched
    /\ settleWorkItem.sched
    /\ IF resolveRemaining = 0
       THEN IOS_finish(settleWorkItem.filterName, hard, browse, SettleOff, resolvers)
       ELSE /\ settleWorkItem' = SettleOff
            /\ lateFound' = FALSE
            /\ UNCHANGED <<hard, browse, discoveryCompletion, targetId,
                           hardTimeoutWorkItem, nwBrowser, browser, delivered, last>>
    /\ UNCHANGED <<platform, useNW, nCalls, target, resolvedOk, resolvers, events,
                   found, resolveRemaining, p3Vars, andVars, elVars>>

IOS_Next ==
    \/ \E id \in Targets : IOS_discover(id)
    \/ \E name \in Names : IOS_browseResultsChanged(name)
    \/ \E name \in Names, moreComing \in BOOLEAN : IOS_didFind(name, moreComing)
    \/ \E name \in Names : IOS_didRemove(name)
    \/ \E r \in DOMAIN resolvers, o \in Outcomes : IOS_didResolve(r, o)
    \/ \E r \in DOMAIN resolvers : IOS_didNotResolve(r)
    \/ IOS_didNotSearch
    \/ IOS_stateFailed
    \/ \E c \in Calls : IOS_hardTimeoutFires(c)
    \/ IOS_settleFires

\* ---- android: mDNS.kt, discover ----------------------------------------------
\* Calls whose coroutine has returned and that have no resolve outstanding.
AND_returned ==
    {d \in Calls : deferred[d] = "returned"
                   /\ \A i \in DOMAIN resolvers :
                        ~(resolvers[i].call = d /\ resolvers[i].st = "pending")}

\* A variant of AND_complete: result.complete without the isCompleted test.
AND_complete_unguarded(c, fl) ==
    /\ deferred' = [deferred EXCEPT ![c] = "completed"]
    /\ delivered' = [delivered EXCEPT ![c] = @ + 1]
    /\ last' = [call |-> c, services |-> fl]

\* if (!result.isCompleted) result.complete(found.toList())
AND_complete(c, fl) ==
    IF deferred[c] = "pending"
    THEN /\ deferred' = [deferred EXCEPT ![c] = "completed"]
         /\ delivered' = [delivered EXCEPT ![c] = @ + 1]
         /\ last' = [call |-> c, services |-> fl]
    ELSE UNCHANGED <<deferred, delivered, last>>

\* discover(...) up to result.await()
AND_discover(targetNameArg) ==
    /\ platform = "and"
    /\ UNCHANGED <<bVars, fVars, tVars, lateFound>>  \* advertising is untouched
    /\ nCalls < MaxCalls
    /\ LET c == nCalls + 1
           dead == AND_returned
       IN
        /\ nCalls' = c
        /\ target' = Start(target, dead, Nil, c, targetNameArg)
        /\ resolvedOk' = Start(resolvedOk, dead, {}, c, {})
        /\ foundList' = Start(foundList, dead, <<>>, c, <<>>)
        /\ last' = NoResult
        /\ browse' = [StopBrowse(browse, discListenerRef) EXCEPT ![c] = "active"]
        /\ discListenerRef' = c
        /\ deferred' = [deferred EXCEPT ![c] = "pending"]
        /\ hard' = [hard EXCEPT ![c] = "scheduled"]
    /\ UNCHANGED <<platform, useNW, delivered, resolvers, events,
                   p3Vars, iosVars, elVars, nwBrowser>>

\* DiscoveryListener.onStartDiscoveryFailed
AND_onStartDiscoveryFailed(c) ==
    /\ platform = "and"
    /\ UNCHANGED <<bVars, fVars, tVars, lateFound>>  \* advertising is untouched
    /\ browse[c] = "active"
    /\ foundList[c] = <<>>
    /\ \A i \in DOMAIN resolvers : resolvers[i].call # c
    /\ browse' = [browse EXCEPT ![c] = "failed"]
    /\ AND_complete(c, foundList[c])
    /\ UNCHANGED <<platform, useNW, nCalls, target, resolvedOk, resolvers, events,
                   hard, foundList, discListenerRef, p3Vars, iosVars, elVars, nwBrowser>>

\* DiscoveryListener.onServiceFound
AND_onServiceFound(c, name) ==
    /\ platform = "and"
    /\ UNCHANGED <<bVars, fVars, tVars, lateFound>>  \* advertising is untouched
    /\ browse[c] = "active"
    /\ MayFind
    /\ IF ~target[c].isNil /\ ~AND_matchesTarget(name, target[c])
       THEN UNCHANGED <<resolvers, events>>
       ELSE /\ resolvers' = Append(resolvers, NewResolver(c, name))
            /\ events' = events + 1
    /\ UNCHANGED <<platform, useNW, nCalls, target, delivered, last, resolvedOk,
                   browse, hard, andVars, p3Vars, iosVars, elVars, nwBrowser>>

\* ResolveListener.onServiceResolved
AND_onServiceResolved(r, o) ==
    /\ platform = "and"
    /\ UNCHANGED <<bVars, fVars, tVars, lateFound>>  \* advertising is untouched
    /\ r \in DOMAIN resolvers
    /\ resolvers[r].st = "pending"
    /\ LET c == resolvers[r].call
           item == Record(resolvers[r].name, o.port, o.host)
           fl == Append(foundList[c], item)
       IN
        /\ resolvers' = RemoveAt(resolvers, r)
        /\ resolvedOk' = NoteOk(c, item)
        \* found is read by result.complete only: once the result is completed
        \* the list is dead and is not tracked further.
        /\ foundList' = IF deferred[c] = "pending"
                        THEN [foundList EXCEPT ![c] = fl] ELSE foundList
        /\ IF ~target[c].isNil /\ AND_matchesTarget(item.name, target[c])
           THEN /\ browse' = StopBrowse(browse, c)
                /\ AND_complete(c, fl)
           ELSE UNCHANGED <<browse, deferred, delivered, last>>
    /\ UNCHANGED <<platform, useNW, nCalls, target, events, hard, discListenerRef,
                   p3Vars, iosVars, elVars, nwBrowser>>

\* ResolveListener.onResolveFailed
AND_onResolveFailed(r) ==
    /\ platform = "and"
    /\ UNCHANGED <<bVars, fVars, tVars, lateFound>>  \* advertising is untouched
    /\ r \in DOMAIN resolvers
    /\ resolvers[r].st = "pending"
    /\ resolvers' = RemoveAt(resolvers, r)
    /\ UNCHANGED <<platform, useNW, nCalls, target, delivered, last, resolvedOk,
                   browse, events, hard, andVars, p3Vars, iosVars, elVars, nwBrowser>>

\* timeoutJob, after its delay
AND_timeoutFires(c) ==
    /\ platform = "and"
    /\ UNCHANGED <<bVars, fVars, tVars, lateFound>>  \* advertising is untouched
    /\ hard[c] = "scheduled"
    /\ hard' = [hard EXCEPT ![c] = "fired"]
    /\ browse' = StopBrowse(browse, c)
    /\ AND_complete(c, foundList[c])
    /\ UNCHANGED <<platform, useNW, nCalls, target, resolvedOk, resolvers, events,
                   foundList, discListenerRef, p3Vars, iosVars, elVars, nwBrowser>>

\* A variant of AND_finally: the finally block also unregisters the
\* advertisement, as close() does.
AND_finally_closes(c) ==
    /\ platform = "and"
    /\ UNCHANGED <<fVars, tVars, lateFound>>
    /\ deferred[c] = "completed"
    /\ deferred' = [deferred EXCEPT ![c] = "returned"]
    /\ hard' = CancelHard(hard, c)
    /\ browse' = StopBrowse(browse, discListenerRef)
    /\ discListenerRef' = 0
    /\ net' = IF regListenerRef # 0 /\ net[regListenerRef] \in {"publishing", "up"}
              THEN [net EXCEPT ![regListenerRef] = "stopped"] ELSE net
    /\ regListenerRef' = 0
    /\ UNCHANGED <<nStarts, nStops, startOut, startCount, startPc, stopPc, overlap,
                   publisher, service, publishCompletion, advertiser, reqVars, nameVars>>
    /\ UNCHANGED <<platform, useNW, nCalls, target, delivered, last, resolvedOk,
                   resolvers, events, foundList, p3Vars, iosVars, elVars, nwBrowser>>

\* The finally block, once result.await() resumes.
AND_finally(c) ==
    /\ platform = "and"
    /\ UNCHANGED <<bVars, fVars, tVars, lateFound>>  \* advertising is untouched
    /\ deferred[c] = "completed"
    /\ deferred' = [deferred EXCEPT ![c] = "returned"]
    /\ hard' = CancelHard(hard, c)
    /\ browse' = StopBrowse(browse, discListenerRef)
    /\ discListenerRef' = 0
    /\ UNCHANGED <<platform, useNW, nCalls, target, delivered, last, resolvedOk,
                   resolvers, events, foundList, p3Vars, iosVars, elVars, nwBrowser>>

AND_Next ==
    \/ \E t \in Targets : AND_discover(t)
    \/ \E c \in Calls : AND_onStartDiscoveryFailed(c)
    \/ \E c \in Calls, name \in Names : AND_onServiceFound(c, name)
    \/ \E r \in DOMAIN resolvers, o \in Outcomes : AND_onServiceResolved(r, o)
    \/ \E r \in DOMAIN resolvers : AND_onResolveFailed(r)
    \/ \E c \in Calls : AND_timeoutFires(c)
    \/ \E c \in Calls : AND_finally(c)

\* ---- electron/mdns.ts: discover ----------------------------------------------
\* finish(), entered with the timers h and the browses b as the caller left them.
EL_finish(c, h, b, svc) ==
    IF finished[c]
    THEN /\ hard' = h
         /\ browse' = b
         /\ UNCHANGED <<finished, delivered, last>>
    ELSE /\ finished' = [finished EXCEPT ![c] = TRUE]
         /\ hard' = CancelHard(h, c)
         /\ browse' = StopBrowse(b, c)
         /\ delivered' = [delivered EXCEPT ![c] = @ + 1]
         /\ last' = [call |-> c, services |-> svc]

EL_dead == {d \in Calls : finished[d]}

\* discover(opts): bonjour.find returns a browser and the timer is set.
EL_discover(id) ==
    /\ platform = "el"
    /\ UNCHANGED <<bVars, fVars, tVars, lateFound>>  \* advertising is untouched
    /\ nCalls < MaxCalls
    /\ LET c == nCalls + 1 IN
        /\ nCalls' = c
        /\ target' = Start(target, EL_dead, Nil, c, id)
        /\ resolvedOk' = Start(resolvedOk, EL_dead, {}, c, {})
        /\ services' = Start(services, EL_dead, <<>>, c, <<>>)
        /\ finished' = [finished EXCEPT ![c] = FALSE]
        /\ last' = NoResult
        /\ browse' = [browse EXCEPT ![c] = "active"]
        /\ hard' = [hard EXCEPT ![c] = "scheduled"]
    /\ UNCHANGED <<platform, useNW, delivered, resolvers, events,
                   p3Vars, iosVars, andVars, nwBrowser>>

\* discover(opts): bonjour.find throws, the catch branch finishes at once.
EL_discoverThrows(id) ==
    /\ platform = "el"
    /\ UNCHANGED <<bVars, fVars, tVars, lateFound>>  \* advertising is untouched
    /\ nCalls < MaxCalls
    /\ LET c == nCalls + 1 IN
        /\ nCalls' = c
        /\ target' = Start(target, EL_dead, Nil, c, id)
        /\ resolvedOk' = Start(resolvedOk, EL_dead, {}, c, {})
        /\ services' = Start(services, EL_dead, <<>>, c, <<>>)
        /\ finished' = [finished EXCEPT ![c] = TRUE]
        /\ delivered' = [delivered EXCEPT ![c] = @ + 1]
        /\ last' = [call |-> c, services |-> <<>>]
        /\ browse' = [browse EXCEPT ![c] = "failed"]
    /\ UNCHANGED <<platform, useNW, hard, resolvers, events,
                   p3Vars, iosVars, andVars, nwBrowser>>

\* The callback given to bonjour.find: a service came up, already resolved.
EL_up(c, name, o) ==
    /\ platform = "el"
    /\ UNCHANGED <<bVars, fVars, tVars, lateFound>>  \* advertising is untouched
    /\ browse[c] = "active"
    /\ MayFind
    /\ EL_matchesTarget(name, EL_targetId(target[c]))
    /\ events' = events + 1
    /\ LET item == Record(name, o.port, o.host)
           dup == \E i \in DOMAIN services[c] :
                     <<services[c][i].name, services[c][i].port>> = <<item.name, item.port>>
           svc == IF dup THEN services[c] ELSE Append(services[c], item)
           t == EL_targetId(target[c])
       IN
        /\ services' = [services EXCEPT ![c] = svc]
        /\ resolvedOk' = NoteOk(c, item)
        /\ IF ~t.isNil /\ t.s # <<>> /\ EL_matchesTarget(item.name, t)
           THEN EL_finish(c, hard, browse, svc)
           ELSE UNCHANGED <<hard, browse, finished, delivered, last>>
    /\ UNCHANGED <<platform, useNW, nCalls, target, resolvers,
                   p3Vars, iosVars, andVars, nwBrowser>>

\* setTimeout(finish, timeoutMs) runs.
EL_timerFires(c) ==
    /\ platform = "el"
    /\ UNCHANGED <<bVars, fVars, tVars, lateFound>>  \* advertising is untouched
    /\ hard[c] = "scheduled"
    /\ EL_finish(c, [hard EXCEPT ![c] = "fired"], browse, services[c])
    /\ UNCHANGED <<platform, useNW, nCalls, target, resolvedOk, resolvers, events,
                   services, p3Vars, iosVars, andVars, nwBrowser>>

\* browser.on('error'): only a warning is logged.
EL_browserError(c) ==
    /\ platform = "el"
    /\ UNCHANGED <<bVars, fVars, tVars, lateFound>>  \* advertising is untouched
    /\ browse[c] = "active"
    /\ browse' = [browse EXCEPT ![c] = "failed"]
    /\ UNCHANGED <<platform, useNW, nCalls, target, delivered, last, resolvedOk,
                   resolvers, events, hard, elVars, p3Vars, iosVars, andVars, nwBrowser>>

EL_Next ==
    \/ \E id \in Targets : EL_discover(id)
    \/ \E id \in Targets : EL_discoverThrows(id)
    \/ \E c \in Calls, name \in Names, o \in Outcomes : EL_up(c, name, o)
    \/ \E c \in Calls : EL_timerFires(c)
    \/ \E c \in Calls : EL_browserError(c)

Next == P3_Next \/ IOS_Next \/ AND_Next \/ EL_Next

Spec == Init /\ [][Next]_vars

\* Timers that are scheduled run, and a resumed coroutine reaches its finally.
Fairness ==
    /\ WF_vars(\E c \in Calls : P3_hardTimeoutFires(c))
    /\ WF_vars(P3_settleFires)
    /\ WF_vars(\E c \in Calls : IOS_hardTimeoutFires(c))
    /\ WF_vars(IOS_settleFires)
    /\ WF_vars(\E c \in Calls : AND_timeoutFires(c))
    /\ WF_vars(\E c \in Calls : AND_finally(c))
    /\ WF_vars(\E c \in Calls : EL_timerFires(c))

FairSpec == Spec /\ Fairness

\* ---- Properties --------------------------------------------------------------
Range(q) == {q[i] : i \in DOMAIN q}
Triple(rec) == <<normalize(rec.name), rec.port, rec.host>>
Started(c) == c <= nCalls
\* A target filter is set: the target is neither absent nor empty.
FilterSet(t) == ~t.isNil /\ t.s # <<>>
\* The name passes the filter: no filter, or normalized equality or prefix.
Passes(name, t) == ~FilterSet(t) \/ hasPrefix(normalize(name), normalize(t.s))
\* This step is a successful resolve of a candidate of call c, still in flight.
ResolveSuccess(c) == resolvedOk'[c] # resolvedOk[c] /\ Started(c)
Delivers(c) == delivered'[c] > delivered[c]

\* C1: every discover call eventually delivers its result.
C1_EveryCallDelivers ==
    \A c \in Calls : Started(c) ~> (delivered[c] >= 1)

\* C2: for every discover call the result is delivered at most once.
C2_DeliveredAtMostOnce ==
    \A c \in Calls : delivered[c] <= 1

\* C2 witness: on Android a call with a target completed by early exit, and
\* its timeout job ran afterwards, before the finally block cancelled it.
C2_Witness ==
    /\ platform = "and"
    /\ \E c \in Calls :
        /\ ~target[c].isNil
        /\ last.call = c
        /\ last.services # <<>>
        /\ hard[c] = "fired"
        /\ delivered[c] = 1

\* C3: starting a later discover call never loses the completion of an earlier
\* call still in flight: the earlier call keeps its hard timeout, at which it
\* completes at the latest.
C3_LaterCallKeepsEarlier ==
    [][\A c \in Calls :
         (nCalls' > nCalls /\ Started(c) /\ delivered[c] = 0 /\ hard[c] = "scheduled")
            => hard'[c] = "scheduled"]_vars

\* C4: the finish or the cleanup of one session never stops the browse of
\* another session in flight and never cancels its timer.
C4_SessionsIndependent ==
    [][\A c, d \in Calls :
         (c # d /\ (Delivers(c) \/ (deferred[c] = "completed" /\ deferred'[c] = "returned"))
              /\ Started(d) /\ delivered[d] = 0)
            => /\ (browse[d] = "active" => browse'[d] = "active")
               /\ (hard[d] = "scheduled" => hard'[d] = "scheduled")
               /\ foundList'[d] = foundList[d]
               /\ services'[d] = services[d]]_vars

\* C5: with a target filter set, a successful resolve of a candidate whose name
\* matches the target finishes the session in that very step, before the hard
\* timeout has fired, and the delivered result holds the matching record and
\* every matching record resolved before it.
C5_EarlyExit ==
    [][\A c \in Calls :
         (/\ FilterSet(target[c])
          /\ ResolveSuccess(c)
          /\ \E rec \in resolvedOk'[c] \ resolvedOk[c] : Passes(rec.name, target[c]))
            => /\ Delivers(c)
               /\ hard'[c] # "fired"
               /\ last'.call = c
               /\ \A rec \in resolvedOk'[c] :
                    Passes(rec.name, target[c])
                        => \E s \in Range(last'.services) : Triple(s) = Triple(rec)]_vars

\* C5 witness: a call with a target filter has delivered a non-empty result
\* and its hard timer was cancelled, never fired.
C5_Witness ==
    \E c \in Calls :
        /\ FilterSet(target[c])
        /\ last.call = c
        /\ last.services # <<>>
        /\ hard[c] = "cancelled"
        /\ delivered[c] = 1

\* C6: with no target filter (absent or empty target) a successful resolve
\* never finishes the session by itself.
C6_NoTargetNoEarlyExit ==
    [][\A c \in Calls :
         (~FilterSet(target[c]) /\ ResolveSuccess(c)) => ~Delivers(c)]_vars

\* C7: the settle timer firing while a started resolve has neither succeeded
\* nor failed does not finish the session.
C7_SettleWaitsForResolves ==
    [][((P3_settleFires \/ IOS_settleFires)
          /\ \E i \in DOMAIN resolvers : resolvers[i].st = "pending")
            => delivered' = delivered]_vars

\* C8: the delivered result never holds two records with the same identity
\* triple (normalized name, port, first host).
C8_NoDuplicateTriple ==
    \A i, j \in DOMAIN last.services :
        i # j => Triple(last.services[i]) # Triple(last.services[j])

\* C9: every identity triple of a successfully resolved service that passes
\* the filter appears in the delivered result, so that two resolved services
\* with different triples both appear.
C9_DistinctIdentitiesKept ==
    last.call # 0 =>
        \A rec \in resolvedOk[last.call] :
            Passes(rec.name, target[last.call])
                => \E s \in Range(last.services) : Triple(s) = Triple(rec)

\* C10: every record of a delivered result is a candidate whose resolve
\* succeeded before the session finished.
C10_OnlyResolvedRecords ==
    last.call # 0 =>
        \A s \in Range(last.services) : s \in resolvedOk[last.call]

\* ---- The bridges: the discovery result handed to the caller ------------------
Null == "null"

\* unnamed/part_002 mDNSPlugin.discover, case .success(services); the manager
\* never completes with .failure.
P3_bridgeDiscover(svc) ==
    [error |-> FALSE, errorMessage |-> Null, servicesFound |-> Len(svc), services |-> svc]

\* ios mDNSPlugin.discover: call.resolve(["services": services])
IOS_bridgeDiscover(svc) == [services |-> svc]

\* android mDNSPlugin.jsResultDiscover
AND_jsResultDiscover(error, msg, svc) ==
    [error |-> error, errorMessage |-> msg, servicesFound |-> Len(svc), services |-> svc]

\* android mDNSPlugin.discover, the list returned by mdns.discover
AND_bridgeDiscover(svc) == AND_jsResultDiscover(FALSE, Null, svc)

\* electron: the ipc handler returns what discover resolved, { services }
EL_bridgeDiscover(svc) == [services |-> svc]

\* The result object of the latest delivery.
DiscoverResult ==
    CASE platform = "p3"  -> P3_bridgeDiscover(last.services)
      [] platform = "ios" -> IOS_bridgeDiscover(last.services)
      [] platform = "and" -> AND_bridgeDiscover(last.services)
      [] platform = "el"  -> EL_bridgeDiscover(last.services)

Has(r, f) == f \in DOMAIN r
BrowseFailed(c) == browse[c] = "failed"

\* C11: a resolve failure, also of a candidate matching the target, does not
\* finish the session.
C11_ResolveFailureNotFatal ==
    [][((\E r \in DOMAIN resolvers : P3_didNotResolve(r))
          \/ (\E r \in DOMAIN resolvers : IOS_didNotResolve(r))
          \/ (\E r \in DOMAIN resolvers : AND_onResolveFailed(r)))
            => delivered' = delivered]_vars

\* C12: a browse error does not finish the session; the session stays open
\* until a timer fires.
C12_BrowseErrorNotFatal ==
    [][(\E c \in Calls : browse[c] = "active" /\ browse'[c] = "failed" /\ Started(c))
            => delivered' = delivered]_vars

\* C13: a result delivered after a browse error has error = true, a non-null
\* errorMessage and the services collected; a result delivered without a
\* browse error has error = false and errorMessage = null.
C13_ErrorFlagReflectsBrowseError ==
    last.call # 0 =>
        /\ Has(DiscoverResult, "error")
        /\ Has(DiscoverResult, "errorMessage")
        /\ DiscoverResult.services = last.services
        /\ IF BrowseFailed(last.call)
           THEN DiscoverResult.error = TRUE /\ DiscoverResult.errorMessage # Null
           ELSE DiscoverResult.error = FALSE /\ DiscoverResult.errorMessage = Null

\* C14: every result has servicesFound = length of services, and a result
\* with zero services and no transport failure has error = false and
\* errorMessage = null.
C14_ZeroServicesIsNoError ==
    last.call # 0 =>
        /\ Has(DiscoverResult, "servicesFound")
        /\ DiscoverResult.servicesFound = Len(DiscoverResult.services)
        /\ (last.services = <<>> /\ ~BrowseFailed(last.call))
              => /\ Has(DiscoverResult, "error")
                 /\ Has(DiscoverResult, "errorMessage")
                 /\ DiscoverResult.error = FALSE
                 /\ DiscoverResult.errorMessage = Null
                 /\ DiscoverResult.servicesFound = 0

\* ---- Advertising: startBroadcast / stopBroadcast -----------------------------
\* A service made by start i is known by the number i.  The transport holds it
\* as "publishing" until it confirms ("up") or refuses ("failed") it; a service
\* the binding stopped is "stopped" and the transport reports nothing more
\* about it.

Published(n) == {i \in Starts : n[i] \in {"publishing", "up"}}

\* NetService.stop() / NsdManager.unregisterService / Service.stop of service i.
Unpublish_lost(n, i) == n

Unpublish(n, i) ==
    IF i # 0 /\ n[i] \in {"publishing", "up"} THEN [n EXCEPT ![i] = "stopped"] ELSE n

\* The completion of start i runs with outcome o.
RunCompletion(i, o) ==
    /\ startOut' = [startOut EXCEPT ![i] = o]
    /\ startCount' = [startCount EXCEPT ![i] = @ + 1]
    /\ startPc' = [startPc EXCEPT ![i] = "done"]

\* -- the request of a start call --
\* The port field of a request; an absent port reads as 0.
Ports == {0, 80, 70000}

\* The name field of a request: absent, empty, blank, or a name.
RawNames == {Nil, Some(<<>>), Some(<<" ">>), Some(NameA)}

\* The fixed identifier a binding publishes under when it has no name.
DefaultName == <<"D">>

\* The name the transport confirms for a service published as n: n itself,
\* or n made unique.
Confirmed(n, uniquified) == IF uniquified THEN n \o <<" ", "(", "2", ")">> ELSE n

\* part_002 startBroadcast: trimmed, and the default when nothing is left.
P3_bridgeName(raw) ==
    IF raw.isNil \/ trim(raw.s) = <<>> THEN DefaultName ELSE trim(raw.s)

\* ios mDNSPlugin.startBroadcast: as above.
IOS_bridgeName(raw) ==
    IF raw.isNil \/ trim(raw.s) = <<>> THEN DefaultName ELSE trim(raw.s)

\* Android mDNSPlugin.startBroadcast: `getString("name") ?: packageName`.
AND_bridgeName(raw) == IF raw.isNil THEN DefaultName ELSE raw.s

\* Electron startBroadcast: `opts.id?.trim() || 'CapacitorMDNS'`.
EL_name(raw) ==
    IF raw.isNil \/ trim(raw.s) = <<>> THEN DefaultName ELSE trim(raw.s)

\* A variant of EL_resultName that answers with the requested name.
EL_resultName_requested(svcName, name) == name

\* Electron onUp: `svc.name || name`.
EL_resultName(svcName, name) == IF svcName # <<>> THEN svcName ELSE name

\* `guard port > 0`, `if (port <= 0)`, `!Number.isInteger(port) || port <= 0`.
PortAccepted(port) == port > 0

\* The call is answered before the manager is reached.
\* A variant of FailValidation: the tracked service is stopped before the
\* request is validated.
FailValidation_afterStop ==
    /\ nStarts' = nStarts + 1
    /\ RunCompletion(nStarts + 1, "invalid")
    /\ net' = Unpublish(Unpublish(Unpublish(Unpublish(net, publisher), service),
                                  regListenerRef), advertiser)
    /\ publisher' = 0
    /\ service' = 0
    /\ regListenerRef' = 0
    /\ advertiser' = 0
    /\ UNCHANGED <<nStops, stopPc, overlap, publishCompletion, pubName, nameVars>>

\* The bridge rejects the request: the completion runs at once and the manager
\* is not called.
FailValidation ==
    /\ nStarts' = nStarts + 1
    /\ RunCompletion(nStarts + 1, "invalid")
    /\ UNCHANGED <<nStops, net, stopPc, overlap, refVars, pubName, nameVars>>

\* The request of the call being issued.
Request(raw, port) ==
    /\ reqName' = [reqName EXCEPT ![nStarts + 1] = raw]
    /\ reqPort' = [reqPort EXCEPT ![nStarts + 1] = port]

\* -- part_003 (NetService publisher) --
P3_broadcast(name) ==
    /\ platform = "p3"
    /\ UNCHANGED <<dVars, fVars, tVars>>  \* discovery is untouched
    /\ pubName' = [pubName EXCEPT ![nStarts + 1] = name]
    /\ UNCHANGED nameVars
    /\ nStarts < MaxStarts
    /\ LET i == nStarts + 1 IN
        /\ nStarts' = i
        /\ net' = [Unpublish(net, publisher) EXCEPT ![i] = "publishing"]
        /\ publishCompletion' = i
        /\ publisher' = i
        /\ startPc' = [startPc EXCEPT ![i] = "pending"]
    /\ UNCHANGED <<nStops, startOut, startCount, stopPc, overlap, service,
                   regListenerRef, advertiser>>

P3_startBroadcast(raw, port) ==
    /\ platform = "p3"
    /\ nStarts < MaxStarts
    /\ Request(raw, port)
    /\ IF PortAccepted(port)
         THEN P3_broadcast(P3_bridgeName(raw))
         ELSE UNCHANGED <<dVars, fVars, tVars>> /\ FailValidation

P3_stopBroadcast ==
    /\ platform = "p3"
    /\ UNCHANGED <<dVars, fVars, tVars>>  \* discovery is untouched
    /\ UNCHANGED <<reqVars, nameVars>>
    /\ nStops < MaxStops
    /\ nStops' = nStops + 1
    /\ net' = Unpublish(net, publisher)
    /\ publisher' = 0
    /\ publishCompletion' = 0
    /\ stopPc' = [stopPc EXCEPT ![nStops + 1] = "done"]
    /\ UNCHANGED <<nStarts, startOut, startCount, startPc, overlap, service,
                   regListenerRef, advertiser>>

P3_netServiceDidPublish(i, final) ==
    /\ platform = "p3"
    /\ UNCHANGED <<dVars, fVars, tVars>>  \* discovery is untouched
    /\ netName' = [netName EXCEPT ![i] = final]
    /\ startName' = IF publishCompletion # 0
                      THEN [startName EXCEPT ![publishCompletion] = final]
                      ELSE startName
    /\ UNCHANGED reqVars
    /\ net[i] = "publishing"
    /\ net' = [net EXCEPT ![i] = "up"]
    /\ publishCompletion' = 0
    /\ IF publishCompletion # 0
         THEN RunCompletion(publishCompletion, "success")
         ELSE UNCHANGED <<startOut, startCount, startPc>>
    /\ UNCHANGED <<nStarts, nStops, stopPc, overlap, publisher, service,
                   regListenerRef, advertiser>>

P3_didNotPublish(i) ==
    /\ platform = "p3"
    /\ UNCHANGED <<dVars, fVars, tVars>>  \* discovery is untouched
    /\ UNCHANGED <<reqVars, nameVars>>
    /\ net[i] = "publishing"
    /\ net' = [net EXCEPT ![i] = "failed"]
    /\ publishCompletion' = 0
    /\ IF publishCompletion # 0
         THEN RunCompletion(publishCompletion, "failure")
         ELSE UNCHANGED <<startOut, startCount, startPc>>
    /\ UNCHANGED <<nStarts, nStops, stopPc, overlap, publisher, service,
                   regListenerRef, advertiser>>

\* -- ios (NetService service) --
IOS_broadcast(name) ==
    /\ platform = "ios"
    /\ UNCHANGED <<dVars, fVars, tVars>>  \* discovery is untouched
    /\ pubName' = [pubName EXCEPT ![nStarts + 1] = name]
    /\ UNCHANGED nameVars
    /\ nStarts < MaxStarts
    /\ LET i == nStarts + 1
           cb == publishCompletion IN
        /\ nStarts' = i
        /\ net' = [Unpublish(net, service) EXCEPT ![i] = "publishing"]
        /\ publishCompletion' = i
        /\ service' = i
        /\ startOut' = IF cb # 0 THEN [startOut EXCEPT ![cb] = "failure"] ELSE startOut
        /\ startCount' = IF cb # 0 THEN [startCount EXCEPT ![cb] = @ + 1]
                                   ELSE startCount
        /\ startPc' = [i2 \in Starts |-> IF i2 = i THEN "pending"
                                         ELSE IF i2 = cb THEN "done" ELSE startPc[i2]]
    /\ UNCHANGED <<nStops, stopPc, overlap, publisher, regListenerRef, advertiser>>

IOS_startBroadcast(raw, port) ==
    /\ platform = "ios"
    /\ nStarts < MaxStarts
    /\ Request(raw, port)
    /\ IF PortAccepted(port)
         THEN IOS_broadcast(IOS_bridgeName(raw))
         ELSE UNCHANGED <<dVars, fVars, tVars>> /\ FailValidation

IOS_stopBroadcast ==
    /\ platform = "ios"
    /\ UNCHANGED <<dVars, fVars, tVars>>  \* discovery is untouched
    /\ UNCHANGED <<reqVars, nameVars>>
    /\ nStops < MaxStops
    /\ nStops' = nStops + 1
    /\ net' = Unpublish(net, service)
    /\ service' = 0
    /\ publishCompletion' = 0
    /\ IF publishCompletion # 0
         THEN RunCompletion(publishCompletion, "failure")
         ELSE UNCHANGED <<startOut, startCount, startPc>>
    /\ stopPc' = [stopPc EXCEPT ![nStops + 1] = "done"]
    /\ UNCHANGED <<nStarts, overlap, publisher, regListenerRef, advertiser>>

IOS_netServiceDidPublish(i, final) ==
    /\ platform = "ios"
    /\ UNCHANGED <<dVars, fVars, tVars>>  \* discovery is untouched
    /\ netName' = [netName EXCEPT ![i] = final]
    /\ startName' = IF publishCompletion # 0
                      THEN [startName EXCEPT ![publishCompletion] = final]
                      ELSE startName
    /\ UNCHANGED reqVars
    /\ net[i] = "publishing"
    /\ net' = [net EXCEPT ![i] = "up"]
    /\ publishCompletion' = 0
    /\ IF publishCompletion # 0
         THEN RunCompletion(publishCompletion, "success")
         ELSE UNCHANGED <<startOut, startCount, startPc>>
    /\ UNCHANGED <<nStarts, nStops, stopPc, overlap, publisher, service,
                   regListenerRef, advertiser>>

IOS_didNotPublish(i) ==
    /\ platform = "ios"
    /\ UNCHANGED <<dVars, fVars, tVars>>  \* discovery is untouched
    /\ UNCHANGED <<reqVars, nameVars>>
    /\ net[i] = "publishing"
    /\ net' = [net EXCEPT ![i] = "failed"]
    /\ publishCompletion' = 0
    /\ IF publishCompletion # 0
         THEN RunCompletion(publishCompletion, "failure")
         ELSE UNCHANGED <<startOut, startCount, startPc>>
    /\ UNCHANGED <<nStarts, nStops, stopPc, overlap, publisher, service,
                   regListenerRef, advertiser>>

\* -- Android (NsdManager registration) --
AND_broadcast(name) ==
    /\ platform = "and"
    /\ UNCHANGED <<dVars, fVars, tVars>>  \* discovery is untouched
    /\ pubName' = [pubName EXCEPT ![nStarts + 1] = name]
    /\ UNCHANGED nameVars
    /\ nStarts < MaxStarts
    /\ LET i == nStarts + 1 IN
        /\ nStarts' = i
        /\ net' = [Unpublish(net, regListenerRef) EXCEPT ![i] = "publishing"]
        /\ regListenerRef' = i
        /\ startPc' = [startPc EXCEPT ![i] = "pending"]
    /\ UNCHANGED <<nStops, startOut, startCount, stopPc, overlap, publisher,
                   service, publishCompletion, advertiser>>

AND_startBroadcast(raw, port) ==
    /\ platform = "and"
    /\ nStarts < MaxStarts
    /\ Request(raw, port)
    /\ IF PortAccepted(port)
         THEN AND_broadcast(AND_bridgeName(raw))
         ELSE UNCHANGED <<dVars, fVars, tVars>> /\ FailValidation

AND_stopBroadcast ==
    /\ platform = "and"
    /\ UNCHANGED <<dVars, fVars, tVars>>  \* discovery is untouched
    /\ UNCHANGED <<reqVars, nameVars>>
    /\ nStops < MaxStops
    /\ nStops' = nStops + 1
    /\ net' = Unpublish(net, regListenerRef)
    /\ regListenerRef' = 0
    /\ stopPc' = [stopPc EXCEPT ![nStops + 1] = "done"]
    /\ UNCHANGED <<nStarts, startOut, startCount, startPc, overlap, publisher,
                   service, publishCompletion, advertiser>>

AND_onServiceRegistered(i, final) ==
    /\ platform = "and"
    /\ UNCHANGED <<dVars, fVars, tVars>>  \* discovery is untouched
    /\ netName' = [netName EXCEPT ![i] = final]
    /\ startName' = [startName EXCEPT ![i] = final]
    /\ UNCHANGED reqVars
    /\ net[i] = "publishing"
    /\ net' = [net EXCEPT ![i] = "up"]
    /\ RunCompletion(i, "success")
    /\ UNCHANGED <<nStarts, nStops, stopPc, overlap, refVars>>

AND_onRegistrationFailed(i) ==
    /\ platform = "and"
    /\ UNCHANGED <<dVars, fVars, tVars>>  \* discovery is untouched
    /\ UNCHANGED <<reqVars, nameVars>>
    /\ net[i] = "publishing"
    /\ net' = [net EXCEPT ![i] = "failed"]
    /\ RunCompletion(i, "failure")
    /\ UNCHANGED <<nStarts, nStops, stopPc, overlap, refVars>>

\* -- Electron (bonjour-service advertiser) --
\* A call is awaiting a stop callback of the transport.
Awaiting == (\E i \in Starts : startPc[i] = "inStop")
                \/ (\E k \in Stops : stopPc[k] = "inStop")

\* startBroadcast up to its first suspension: `await this.stopBroadcast()`
\* either suspends on the stop callback, or (no advertiser) goes on to publish.
\* parseType(opts.type) throws on a type that does not read _label._protocol;
\* it and the port test come before `await this.stopBroadcast()`.
EL_startBroadcast(raw, port, typeParses) ==
    /\ platform = "el"
    /\ UNCHANGED <<dVars, fVars, tVars>>  \* discovery is untouched
    /\ nStarts < MaxStarts
    /\ Request(raw, port)
    /\ IF ~typeParses \/ ~PortAccepted(port)
         THEN FailValidation
         ELSE LET i == nStarts + 1 IN
            /\ nStarts' = i
            /\ pubName' = [pubName EXCEPT ![i] = EL_name(raw)]
            /\ overlap' = (overlap \/ Awaiting)
            /\ IF advertiser # 0
                 THEN /\ net' = Unpublish(net, advertiser)
                      /\ startPc' = [startPc EXCEPT ![i] = "inStop"]
                      /\ advertiser' = advertiser
                 ELSE /\ net' = [net EXCEPT ![i] = "publishing"]
                      /\ startPc' = [startPc EXCEPT ![i] = "pending"]
                      /\ advertiser' = i
            /\ UNCHANGED <<nStops, startOut, startCount, stopPc, publisher, service,
                           publishCompletion, regListenerRef, nameVars>>

\* dispose() has run this.bonjour.destroy(): the instance's socket is closed.
Destroyed == platform = "el" /\ \E k \in Closes : closePc[k] = "done"

\* The stop callback start i awaits fires: stopBroadcast clears the advertiser
\* and startBroadcast publishes its own service.
EL_startResume(i) ==
    /\ platform = "el"
    /\ UNCHANGED <<dVars, fVars, tVars>>  \* discovery is untouched
    /\ UNCHANGED <<reqVars, nameVars>>
    /\ startPc[i] = "inStop"
    \* this.bonjour.publish on a destroyed instance reaches no socket
    /\ net' = IF Destroyed THEN net ELSE [net EXCEPT ![i] = "publishing"]
    /\ advertiser' = i
    /\ startPc' = [startPc EXCEPT ![i] = "pending"]
    /\ UNCHANGED <<nStarts, nStops, startOut, startCount, stopPc, overlap,
                   publisher, service, publishCompletion, regListenerRef>>

EL_stopBroadcast ==
    /\ platform = "el"
    /\ UNCHANGED <<dVars, fVars, tVars>>  \* discovery is untouched
    /\ UNCHANGED <<reqVars, nameVars>>
    /\ nStops < MaxStops
    /\ nStops' = nStops + 1
    /\ overlap' = (overlap \/ Awaiting)
    /\ net' = Unpublish(net, advertiser)
    /\ stopPc' = [stopPc EXCEPT ![nStops + 1] =
                      IF advertiser # 0 THEN "inStop" ELSE "done"]
    /\ UNCHANGED <<nStarts, startOut, startCount, startPc, refVars>>

\* The stop callback stop k awaits fires: `this.advertiser = undefined`.
EL_stopResume(k) ==
    /\ platform = "el"
    /\ UNCHANGED <<dVars, fVars, tVars>>  \* discovery is untouched
    /\ UNCHANGED <<reqVars, nameVars>>
    /\ stopPc[k] = "inStop"
    /\ advertiser' = 0
    /\ stopPc' = [stopPc EXCEPT ![k] = "done"]
    /\ UNCHANGED <<nStarts, nStops, net, startOut, startCount, startPc, overlap,
                   publisher, service, publishCompletion, regListenerRef>>

EL_onUp(i, final) ==
    /\ platform = "el"
    /\ UNCHANGED <<dVars, fVars, tVars>>  \* discovery is untouched
    /\ netName' = [netName EXCEPT ![i] = final]
    /\ startName' = [startName EXCEPT ![i] = EL_resultName(final, pubName[i])]
    /\ UNCHANGED reqVars
    /\ net[i] = "publishing"
    /\ net' = [net EXCEPT ![i] = "up"]
    /\ RunCompletion(i, "success")
    /\ UNCHANGED <<nStarts, nStops, stopPc, overlap, refVars>>

EL_onError(i) ==
    /\ platform = "el"
    /\ UNCHANGED <<dVars, fVars, tVars>>  \* discovery is untouched
    /\ UNCHANGED <<reqVars, nameVars>>
    /\ net[i] = "publishing"
    /\ net' = [net EXCEPT ![i] = "failed"]
    /\ RunCompletion(i, "failure")
    /\ UNCHANGED <<nStarts, nStops, stopPc, overlap, refVars>>

BNext ==
    \/ \E raw \in RawNames, port \in Ports : P3_startBroadcast(raw, port)
    \/ P3_stopBroadcast
    \/ \E i \in Starts, u \in BOOLEAN : P3_netServiceDidPublish(i, Confirmed(pubName[i], u))
    \/ \E i \in Starts : P3_didNotPublish(i)
    \/ \E raw \in RawNames, port \in Ports : IOS_startBroadcast(raw, port)
    \/ IOS_stopBroadcast
    \/ \E i \in Starts, u \in BOOLEAN : IOS_netServiceDidPublish(i, Confirmed(pubName[i], u))
    \/ \E i \in Starts : IOS_didNotPublish(i)
    \/ \E raw \in RawNames, port \in Ports : AND_startBroadcast(raw, port)
    \/ AND_stopBroadcast
    \/ \E i \in Starts, u \in BOOLEAN : AND_onServiceRegistered(i, Confirmed(pubName[i], u))
    \/ \E i \in Starts : AND_onRegistrationFailed(i)
    \/ \E raw \in RawNames, port \in Ports, typeParses \in BOOLEAN :
            EL_startBroadcast(raw, port, typeParses)
    \/ \E i \in Starts : EL_startResume(i)
    \/ EL_stopBroadcast
    \/ \E k \in Stops : EL_stopResume(k)
    \/ \E i \in Starts, u \in BOOLEAN : EL_onUp(i, Confirmed(pubName[i], u))
    \/ \E i \in Starts : EL_onError(i)

BSpec == Init /\ [][BNext]_vars

\* The transport answers every publish it was asked for, and fires every stop
\* callback it was handed.
BFairness ==
    /\ \A i \in Starts :
        /\ WF_vars((\E u \in BOOLEAN : P3_netServiceDidPublish(i, Confirmed(pubName[i], u))) \/ P3_didNotPublish(i))
        /\ WF_vars((\E u \in BOOLEAN : IOS_netServiceDidPublish(i, Confirmed(pubName[i], u))) \/ IOS_didNotPublish(i))
        /\ WF_vars((\E u \in BOOLEAN : AND_onServiceRegistered(i, Confirmed(pubName[i], u))) \/ AND_onRegistrationFailed(i))
        /\ WF_vars((\E u \in BOOLEAN : EL_onUp(i, Confirmed(pubName[i], u))) \/ EL_onError(i))
        /\ WF_vars(EL_startResume(i))
    /\ \A k \in Stops : WF_vars(EL_stopResume(k))

BFairSpec == BSpec /\ BFairness

\* ---- Claims about advertising ------------------------------------------------
\* C15: for start and stop calls issued one after another (none issued while
\* another call is still awaiting a stop), a start made while an earlier
\* advertisement is active has that advertisement unpublished before its own is
\* published, so the transport never holds more than one advertisement.
C15_SequentialStartsKeepOne ==
    ~overlap => Cardinality(Published(net)) <= 1

\* A second start replaced an advertisement the transport had confirmed.
C15_Witness ==
    /\ ~overlap
    /\ nStops = 0
    /\ startOut[1] = "success"
    /\ net[1] = "stopped"
    /\ net[2] \in {"publishing", "up"}

\* The service the session tracks as its current publication (0: none).
Tracked ==
    CASE platform = "p3"  -> publisher
      [] platform = "ios" -> service
      [] platform = "and" -> regListenerRef
      [] platform = "el"  -> advertiser

\* C16: under every interleaving of start and stop calls, the transport holds
\* at most one published service, and a service still published is the one the
\* session tracks (so that a following stop unpublishes it).
C16_OnePublishedAndTracked ==
    /\ Cardinality(Published(net)) <= 1
    /\ \A i \in Published(net) : Tracked = i

\* C17: every startBroadcast call issued eventually has its completion run,
\* and never more than once, also when a later start supersedes it or a stop
\* cancels it before the transport confirmed the publish.
C17_EveryStartGetsOneResult ==
    /\ \A i \in Starts : [](startCount[i] <= 1)
    /\ \A i \in Starts : (nStarts >= i) ~> (startCount[i] = 1)

\* C18: a service whose publish the transport rejected or failed is not kept as
\* the session's current publication: after the failure nothing of it remains
\* tracked for a following stop to unpublish.
C18_FailedPublishNotTracked ==
    \A i \in Starts : net[i] = "failed" => Tracked # i

\* ---- The bridges: the results of startBroadcast and stopBroadcast ----
Message == "message"    \* err.localizedDescription / err.message

\* part_002 startBroadcast: both outcomes are resolved; finalName is what the
\* manager's completion was called with.
P3_bridgeStartBroadcast(o, finalName) ==
    IF o = "success"
      THEN [publishing |-> TRUE, name |-> finalName, error |-> FALSE,
            errorMessage |-> Null]
      ELSE [publishing |-> FALSE, name |-> <<>>, error |-> TRUE,
            errorMessage |-> Message]

\* ios mDNSPlugin.startBroadcast: success is resolved, failure is rejected.
IOS_bridgeStartBroadcast(o, finalName) ==
    IF o = "success"
      THEN [publishing |-> TRUE, name |-> finalName]
      ELSE [rejected |-> Message]

AND_jsResultBroadcast(publishing, name, error, msg) ==
    [publishing |-> publishing, name |-> name, error |-> error, errorMessage |-> msg]

AND_bridgeStartBroadcast(o, published) ==
    IF o = "success"
      THEN AND_jsResultBroadcast(TRUE, published, FALSE, Null)
      ELSE AND_jsResultBroadcast(FALSE, <<>>, TRUE, Message)

\* Electron: the promise of startBroadcast is what ipcMain.handle returns.
EL_bridgeStartBroadcast(o, name) ==
    IF o = "success"
      THEN [publishing |-> TRUE, name |-> name]
      ELSE [rejected |-> Message]

\* What the caller of start i received (startOut[i] # "none").
StartResult(i) ==
    CASE platform = "p3"  -> P3_bridgeStartBroadcast(startOut[i], startName[i])
      [] platform = "ios" -> IOS_bridgeStartBroadcast(startOut[i], startName[i])
      [] platform = "and" -> AND_bridgeStartBroadcast(startOut[i], startName[i])
      [] platform = "el"  -> EL_bridgeStartBroadcast(startOut[i], startName[i])

\* C19: a startBroadcast call that got its result was resolved, not rejected;
\* on success the result has publishing = true, error = false and a null
\* errorMessage, on a publish failure publishing = false, an empty name,
\* error = true and a non-null errorMessage; publishing is true exactly when
\* error is false.
C19_StartResolvesWithEnvelope ==
    \A i \in Starts : startOut[i] \in {"success", "failure"} =>
        LET r == StartResult(i) IN
        /\ ~Has(r, "rejected")
        /\ Has(r, "publishing") /\ Has(r, "error") /\ Has(r, "errorMessage")
        /\ r.publishing = ~r.error
        /\ IF startOut[i] = "success"
             THEN r.publishing /\ r.errorMessage = Null
             ELSE ~r.publishing /\ r.name = <<>> /\ r.errorMessage # Null

\* part_002 stopBroadcast (MDNS.stopBroadcast does not throw).
P3_bridgeStopBroadcast == [publishing |-> FALSE, error |-> FALSE, errorMessage |-> Null]

IOS_bridgeStopBroadcast == [publishing |-> FALSE]

AND_jsResultStop(error, msg) ==
    [publishing |-> FALSE, error |-> error, errorMessage |-> msg]

AND_bridgeStopBroadcast == AND_jsResultStop(FALSE, Null)

EL_bridgeStopBroadcast == [publishing |-> FALSE]

\* What the caller of a completed stopBroadcast received.
StopResult ==
    CASE platform = "p3"  -> P3_bridgeStopBroadcast
      [] platform = "ios" -> IOS_bridgeStopBroadcast
      [] platform = "and" -> AND_bridgeStopBroadcast
      [] platform = "el"  -> EL_bridgeStopBroadcast

\* Stop k completes in this step.
StopCompletes(k) == stopPc[k] # "done" /\ stopPc'[k] = "done"

\* C20: whenever a stopBroadcast call completes, whatever the state it was
\* called in and however many stops came before, its result has
\* publishing = false and error = false, and no advertisement is active then.
C20_StopIdempotent ==
    [][\A k \in Stops : StopCompletes(k) =>
          /\ Has(StopResult, "publishing") /\ ~StopResult.publishing
          /\ Has(StopResult, "error") /\ ~StopResult.error
          /\ Published(net') = {}]_vars

\* ---- Claims about the start request ------------------------------------------
\* The ports a service can be advertised on.
ValidPorts == 1..65535

\* A start call is issued in this step.
StartIssued == nStarts' = nStarts + 1

\* C21: a startBroadcast call whose port is outside 1..65535 fails validation,
\* and the transport receives neither a publish nor an unpublish because of it.
C21_InvalidPortNoTransport ==
    [][(StartIssued /\ reqPort'[nStarts'] \notin ValidPorts) =>
          (net' = net /\ startOut'[nStarts'] = "invalid")]_vars

\* C22: on a successful startBroadcast the name in the result is the name the
\* transport reported when it confirmed the publish, which may differ from the
\* name the service was published under.
C22_ResultNameIsFinalName ==
    \A i \in Starts : startOut[i] = "success" => StartResult(i).name = netName[i]

\* A start succeeded under a name the transport made unique.
C22_Witness ==
    \E i \in Starts :
        /\ startOut[i] = "success"
        /\ netName[i] # pubName[i]
        /\ StartResult(i).name = netName[i]

\* The requested name is absent, empty or only whitespace.
Blank(raw) == raw.isNil \/ trim(raw.s) = <<>>

\* C23: the instance name handed to the transport's publish is never empty;
\* a request whose name is absent, empty or only whitespace is published under
\* the fixed default identifier.
C23_PublishedNameNotEmpty ==
    \A i \in Starts : net[i] # "none" =>
        /\ pubName[i] # <<>>
        /\ Blank(reqName[i]) => pubName[i] = DefaultName

\* ---- The name functions applied to given names -------------------------------
\* Names to normalize and to match: a base followed by up to two endings, some
\* of them " (n)" suffixes and some only alike.
Bases == {<<>>, <<"A">>, <<"B">>, <<"A", "B">>}
Endings == {<<>>, <<" ", "(", "1", ")">>, <<" ", "(", "2", ")">>,
            <<" ", "(", "1", "2", ")">>, <<" ", "(", ")">>, <<"(", "1", ")">>}
NameInputs == {b \o e1 \o e2 : b \in Bases, e1 \in Endings, e2 \in Endings}
TargetInputs == {Nil} \cup {Some(b \o e) : b \in Bases, e \in Endings}

\* The functions do not depend on the binding that runs.
FInit ==
    /\ platform = "p3"
    /\ useNW = FALSE
    /\ Constructed
    /\ fIn \in NameInputs
    /\ fTgt \in TargetInputs
    /\ fOpts = NoOptions
    /\ NoApplication

\* normalize applied once and twice to fIn.
F_normalize ==
    /\ fDone = "none"
    /\ fDone' = "normalize"
    /\ fNorm' = <<normalize(fIn), normalize(normalize(fIn))>>
    /\ UNCHANGED <<dVars, bVars, tVars, fIn, fTgt, fMatch, fOpts, fSession, fSvc, fEntry>>

\* Each binding's matchesTarget applied to the candidate fIn and the target fTgt.
F_matchesTarget ==
    /\ fDone = "none"
    /\ fDone' = "matches"
    /\ fMatch' = [p3  |-> P3_matchesTarget(fIn, fTgt),
                  ios |-> IOS_matchesTarget(fIn, fTgt),
                  and |-> AND_matchesTarget(fIn, fTgt),
                  el  |-> EL_matchesTarget(fIn, fTgt)]
    /\ UNCHANGED <<dVars, bVars, tVars, fIn, fTgt, fNorm, fOpts, fSession, fSvc, fEntry>>

\* -- the options of a discover request --
DefaultTimeout == 3000

Max(a, b) == IF a >= b THEN a ELSE b

OptionInputs ==
    [name : {Nil, Some(NameA)}, timeout : {NoNum, Num(500)},
     id : {Nil, Some(NameB)}, timeoutMs : {NoNum, Num(700)}]

\* part_002 discover reads name and timeout; part_003 discover keeps the name
\* and arms the hard timeout with max(0, timeoutMs).
P3_discoverOptions(o) ==
    [target |-> o.name,
     timeoutMs |-> Max(0, IF o.timeout.isNil THEN DefaultTimeout ELSE o.timeout.v)]

\* ios mDNSPlugin.discover reads id and timeoutMs.
IOS_discoverOptions(o) ==
    [target |-> o.id,
     timeoutMs |-> IF o.timeoutMs.isNil THEN DefaultTimeout ELSE o.timeoutMs.v]

\* Android mDNSPlugin.discover reads name and timeout.
AND_discoverOptions(o) ==
    [target |-> o.name,
     timeoutMs |-> IF o.timeout.isNil THEN DefaultTimeout ELSE o.timeout.v]

\* Electron discover reads opts.id (trimmed) and opts.timeoutMs.
EL_discoverOptions(o) ==
    [target |-> EL_targetId(o.id),
     timeoutMs |-> IF o.timeoutMs.isNil THEN DefaultTimeout ELSE o.timeoutMs.v]

\* A discover request arrives: each binding reads its options.
F_discoverOptions(o) ==
    /\ fDone = "none"
    /\ fDone' = "options"
    /\ fOpts' = o
    /\ fSession' = [b \in Platforms |->
                       CASE b = "p3"  -> P3_discoverOptions(o)
                         [] b = "ios" -> IOS_discoverOptions(o)
                         [] b = "and" -> AND_discoverOptions(o)
                         [] b = "el"  -> EL_discoverOptions(o)]
    /\ UNCHANGED <<dVars, bVars, tVars, fIn, fTgt, fNorm, fMatch, fSvc, fEntry>>

\* -- the record built for a resolved service --
\* A service type is a sequence of labels and dots.
CanonicalType == <<"_http", ".", "_tcp", ".">>

\* The type field of a discover request: with or without the trailing dot.
RequestTypes == {CanonicalType, <<"_http", ".", "_tcp">>}

\* What a transport may report as the type of a resolved service: the
\* canonical form, one without the trailing dot, one with a leading dot and
\* one in another casing.
ReportedTypes == {CanonicalType,
                  <<"_http", ".", "_tcp">>,
                  <<".", "_http", ".", "_tcp">>,
                  <<"_HTTP", ".", "_tcp", ".">>}

\* The addresses a resolve produced: none, one or two.
AddressInputs == {<<>>, <<"h1">>, <<"h1", "h2">>}

hasSuffixDot(t) == t # <<>> /\ t[Len(t)] = "."

\* normalizeType of the bridges: a dot is appended when the last character is
\* not one.
normalizeType(t) == IF hasSuffixDot(t) THEN t ELSE t \o <<".">>

\* Electron parseType: one trailing dot is dropped and the rest must read
\* _label._protocol; toFullType writes _label._protocol. from the two parts.
EL_parseType(t) ==
    LET s == IF hasSuffixDot(t) THEN SubSeq(t, 1, Len(t) - 1) ELSE t
    IN [type |-> s[1], protocol |-> s[3]]

EL_toFullType(type, protocol) == <<type, ".", protocol, ".">>

\* part_003: the browser path keeps service.type, the NWBrowser path appends
\* a dot to the reported type when it has none; finishDiscovery adds hosts
\* only when the list is not empty.
P3_entry(svc) ==
    LET type == IF svc.nw THEN normalizeType(svc.type) ELSE svc.type
    IN IF svc.addresses # <<>>
         THEN [type |-> type, hosts |-> svc.addresses]
         ELSE [type |-> type]

\* ios collectResults: type is the NetService's type (the reported one, with a
\* dot appended on the NWBrowser path), hosts is set only when not empty.
IOS_entry(svc) ==
    LET type == IF svc.nw THEN normalizeType(svc.type) ELSE svc.type
    IN IF svc.addresses # <<>>
         THEN [type |-> type, hosts |-> svc.addresses]
         ELSE [type |-> type]

\* Android: onServiceResolved keeps s.serviceType and the one host address;
\* the plugin always puts hosts, as [] or [addr].
AND_entry(svc) ==
    [type |-> svc.type,
     hosts |-> IF svc.addresses = <<>> THEN <<>> ELSE <<svc.addresses[1]>>]

\* Electron: type is rebuilt from the parsed request, hosts is a copy of the
\* addresses or [].
EL_entry(svc) ==
    LET t == EL_parseType(svc.requested)
    IN [type |-> EL_toFullType(t.type, t.protocol), hosts |-> svc.addresses]

\* A service is resolved during a discovery of the requested type: each
\* binding builds its record.
F_entry(requested, reported, addresses, nw) ==
    /\ fDone = "none"
    /\ fDone' = "entry"
    /\ fSvc' = [requested |-> requested, type |-> reported,
                addresses |-> addresses, nw |-> nw]
    /\ fEntry' = [b \in Platforms |->
                     CASE b = "p3"  -> P3_entry(fSvc')
                       [] b = "ios" -> IOS_entry(fSvc')
                       [] b = "and" -> AND_entry(fSvc')
                       [] b = "el"  -> EL_entry(fSvc')]
    /\ UNCHANGED <<dVars, bVars, tVars, fIn, fTgt, fNorm, fMatch, fOpts, fSession>>

FNext ==
    \/ F_normalize
    \/ F_matchesTarget
    \/ \E o \in OptionInputs : F_discoverOptions(o)
    \/ \E requested \in RequestTypes, reported \in ReportedTypes,
          addresses \in AddressInputs, nw \in BOOLEAN :
            F_entry(requested, reported, addresses, nw)

FSpec == FInit /\ [][FNext]_vars

\* C24: normalize is idempotent: normalizing a normalized name changes nothing,
\* also for names that end in several " (n)" suffixes.
C24_NormalizeIdempotent ==
    fDone = "normalize" => fNorm[2] = fNorm[1]

\* The matching rule: no target or an empty one accepts every candidate;
\* otherwise the normalized candidate equals, or starts with, the normalized
\* target.
Matches(candidate, t) ==
    IF t.isNil \/ t.s = <<>> THEN TRUE
    ELSE normalize(candidate) = normalize(t.s)
            \/ hasPrefix(normalize(candidate), normalize(t.s))

\* C25: the matchers of part_003, ios/Sources, Android and Electron all answer
\* as the matching rule says, for every candidate and target.
C25_MatchersComputeRule ==
    fDone = "matches" =>
        LET m == Matches(fIn, fTgt) IN
        fMatch = [p3 |-> m, ios |-> m, and |-> m, el |-> m]

\* A candidate with a " (n)" suffix was matched by prefix against a target that
\* is not its whole normalized name.
C25_Witness ==
    /\ fDone = "matches"
    /\ fIn = <<"A", "B", " ", "(", "2", ")">>
    /\ fTgt = Some(<<"A">>)
    /\ fMatch.el /\ fMatch.and /\ fMatch.ios /\ fMatch.p3

\* C26: with a target filter set, a candidate whose name fails the match never
\* has a resolve started for it, and every record of the delivered result has
\* a name that matches the target of its call.
C26_FilteredCandidatesIgnored ==
    /\ \A r \in DOMAIN resolvers :
          LET c == resolvers[r].call IN
          (c # 0 /\ FilterSet(target[c])) => Passes(resolvers[r].name, target[c])
    /\ (last.call # 0 /\ FilterSet(target[last.call])) =>
          \A rec \in Range(last.services) : Passes(rec.name, target[last.call])

\* C27: the target filter and the hard-timeout budget a discovery session runs
\* with are the request's name and timeout; no filter and 3000 ms are used only
\* when the field is absent from the request.
C27_SessionUsesRequestFields ==
    fDone = "options" =>
        \A b \in Platforms :
            /\ fSession[b].target = fOpts.name
            /\ fSession[b].timeoutMs =
                  IF fOpts.timeout.isNil THEN DefaultTimeout ELSE fOpts.timeout.v

\* C28: every record of a discovery result carries a hosts field that is a
\* list; when no address was resolved it is the empty list, never omitted.
C28_HostsAlwaysList ==
    fDone = "entry" =>
        \A b \in Platforms :
            /\ Has(fEntry[b], "hosts")
            /\ fSvc.addresses = <<>> => fEntry[b].hosts = <<>>

\* C29: the type field of every record equals the canonical dot-terminated
\* full type of the request, whatever casing, leading dot or trailing dot the
\* transport reported.
C29_TypeIsCanonical ==
    fDone = "entry" =>
        \A b \in Platforms : fEntry[b].type = normalizeType(fSvc.requested)

\* The step is the resolve callback (success or failure) of the pending
\* resolver r.  Android drops the resolve listener with the callback; the other
\* bindings keep the NetService, which now has its outcome.
ResolveEvent(r) ==
    /\ nCalls' = nCalls
    /\ resolvers[r].st = "pending"
    /\ IF platform = "and"
       THEN resolvers' = RemoveAt(resolvers, r)
       ELSE r \in DOMAIN resolvers' /\ resolvers'[r].st \in {"ok", "failed"}

\* Call c has delivered its result / a later call has been started.
Finished(c) == delivered[c] >= 1
Replaced(c) == c < nCalls

\* Nothing of the session of call d changes in the step.
SessionUntouched(d) ==
    /\ delivered'[d] = delivered[d]
    /\ browse'[d] = browse[d]
    /\ hard'[d] = hard[d]
    /\ foundList'[d] = foundList[d]
    /\ services'[d] = services[d]

\* The call whose session the iOS manager's members hold, 0 = none.
Current == IF platform = "ios" THEN discoveryCompletion ELSE discoverCompletion

PendingOf(c) == {r \in DOMAIN resolvers : resolvers[r].call = c /\ resolvers[r].st = "pending"}

\* C31: in the iOS manager that counts resolves, resolveRemaining equals the
\* number of resolves the current session started that have neither succeeded
\* nor failed, and is never negative.
C31_ResolveRemainingExact ==
    (platform = "ios" /\ discoveryCompletion # 0) =>
        /\ resolveRemaining >= 0
        /\ resolveRemaining = Cardinality(PendingOf(discoveryCompletion))

\* Call c has handed its result to the caller: on Android discover returns
\* after its finally block, elsewhere the completion is the delivery.
Returned(c) ==
    IF platform = "and" THEN deferred[c] = "returned" ELSE delivered[c] >= 1

\* A settle item of the iOS managers is scheduled.
SettleScheduled ==
    \/ platform = "p3" /\ settleDebounce
    \/ platform = "ios" /\ settleWorkItem.sched

\* C32: once a session has delivered its result its browse is stopped and its
\* hard timeout is not scheduled; with no session in flight no settle item is
\* scheduled either.
C32_FinishedSessionReleased ==
    /\ \A c \in Calls : (Started(c) /\ Returned(c)) =>
            /\ browse[c] # "active"
            /\ hard[c] # "scheduled"
    /\ (nCalls >= 1 /\ \A c \in Calls : Started(c) => Returned(c)) => ~SettleScheduled

\* C33: the settle trigger never finishes a session when a found event started
\* a resolve after the settle item was scheduled, that is, less than one full
\* settle window after the most recent such found event.
C33_FoundRestartsSettle ==
    [][((P3_settleFires \/ IOS_settleFires) /\ \E c \in Calls : Delivers(c))
          => ~lateFound]_vars

\* The record a resolved box stands for, and the box finishDiscovery's loop
\* emits for a record: the first resolved one in discovered with its key.
BoxRecord(box) == Record(box.name, box.port, box.host)
Emits(boxes, rec) == {i \in DOMAIN boxes : boxes[i].resolved /\ BoxRecord(boxes[i]) = rec}
KeptBox(boxes, rec) ==
    CHOOSE i \in Emits(boxes, rec) : \A j \in Emits(boxes, rec) : i <= j

\* The step is a resolve success of the pending resolver r that does not
\* finish the session (iOS managers).
SucceedsOpen(r) ==
    /\ resolvers[r].st = "pending"
    /\ r \in DOMAIN resolvers'
    /\ resolvers'[r].st = "ok"

IsPrefix(q, w) == Len(q) <= Len(w) /\ SubSeq(w, 1, Len(q)) = q

\* C34: when a resolve succeeds with the identity (name, port, first host) of
\* an earlier success of the session, the record kept for that identity stays
\* the one of the earlier resolve: the later one neither replaces it nor is
\* merged into it.
C34_FirstResolvedWins ==
    [][/\ \A r \in DOMAIN resolvers :
            (platform = "p3" /\ SucceedsOpen(r) /\ r \in DOMAIN discovered') =>
                LET rec == BoxRecord(discovered'[r]) IN
                (\E j \in Emits(discovered, rec) : j # r)
                    => KeptBox(discovered', rec) # r
       /\ \A r \in DOMAIN resolvers :
            (platform = "ios" /\ SucceedsOpen(r) /\ delivered[resolvers[r].call] = 0) =>
                LET rec == Record(resolvers'[r].name, resolvers'[r].port,
                                  resolvers'[r].host) IN
                rec \in resolvedOk[resolvers[r].call]
                    => ~\E e \in found' : e.rid = r
       /\ \A c \in Calls :
            (platform = "and" /\ Len(foundList'[c]) > Len(foundList[c])) =>
                IsPrefix(foundList[c], foundList'[c])
       /\ \A c \in Calls :
            (platform = "el" /\ nCalls' = nCalls) =>
                IsPrefix(services[c], services'[c])]_vars

\* C35: whichever step delivers the result of a call, every candidate that
\* passed the target filter and whose resolve succeeded before that step is
\* represented in the delivered services by a record with its identity.
C35_DeliveredResultComplete ==
    [][\A c \in Calls :
         Delivers(c) =>
            \A rec \in resolvedOk[c] :
                Passes(rec.name, target[c])
                    => \E s \in Range(last'.services) : Triple(s) = Triple(rec)]_vars

\* C36: in the NWBrowser path of the iOS managers a session starts at most one
\* resolve per service, however the browser reports its type and domain.
C36_OneResolvePerService ==
    (platform \in {"p3", "ios"} /\ useNW) =>
        \A i, j \in DOMAIN resolvers :
            (i # j /\ resolvers[i].call # 0 /\ resolvers[i].call = resolvers[j].call)
                => resolvers[i].name # resolvers[j].name

\* C38: a startBroadcast call that fails input validation leaves the active
\* advertisement as it is: nothing is unpublished and the tracked publication
\* stays tracked.
C38_RejectedStartKeepsAdvertisement ==
    [][(StartIssued /\ startOut'[nStarts'] = "invalid")
          => (net' = net /\ refVars' = refVars)]_vars

\* C38 witness: the first start is up and tracked, and a second start was
\* rejected by validation.
C38_Witness ==
    /\ nStarts = 2
    /\ net[1] = "up"
    /\ Tracked = 1
    /\ startOut[2] = "invalid"

\* ---- teardown, and discovery and advertising side by side -------------------
\* A teardown has run to its end.
Closed == \E k \in Closes : closePc[k] = "done"

\* scope.cancel(): every discover coroutine still suspended leaves through its
\* finally block, and the plugin answers a call that had no result yet from
\* its catch block.
Cancelled == {c \in Calls : deferred[c] \in {"pending", "completed"}}
Unanswered == {c \in Calls : deferred[c] = "pending"}

\* mDNSPlugin.handleOnDestroy: mdns.close(), then scope.cancel().
AND_handleOnDestroy ==
    /\ platform = "and"
    /\ nCloses < MaxCloses
    /\ nCloses' = nCloses + 1
    /\ closePc' = [closePc EXCEPT ![nCloses + 1] = "done"]
    /\ net' = Unpublish(net, regListenerRef)
    /\ regListenerRef' = 0
    /\ browse' = StopBrowse(browse, discListenerRef)
    /\ discListenerRef' = 0
    /\ deferred' = [c \in Calls |-> IF c \in Cancelled THEN "returned" ELSE deferred[c]]
    /\ hard' = [c \in Calls |-> IF c \in Cancelled /\ hard[c] = "scheduled"
                                THEN "cancelled" ELSE hard[c]]
    /\ delivered' = [c \in Calls |-> IF c \in Unanswered THEN delivered[c] + 1
                                     ELSE delivered[c]]
    /\ last' = IF Unanswered = {} THEN last
               ELSE [call |-> CHOOSE c \in Unanswered : \A d \in Unanswered : d <= c,
                     services |-> <<>>]
    /\ UNCHANGED <<platform, useNW, nCalls, target, resolvedOk, resolvers, events,
                   foundList, p3Vars, iosVars, elVars, nwBrowser, lateFound>>
    /\ UNCHANGED <<nStarts, nStops, startOut, startCount, startPc, stopPc, overlap,
                   publisher, service, publishCompletion, advertiser, reqVars, nameVars>>
    /\ UNCHANGED fVars

\* this.bonjour.destroy(): the registry drops every service and the socket is
\* closed, so no service is announced and no browser is fed any longer.
DestroyNet(n) == [i \in Starts |-> IF n[i] \in {"publishing", "up"} THEN "stopped" ELSE n[i]]
DestroyBrowse(b) == [c \in Calls |-> IF b[c] = "active" THEN "stopped" ELSE b[c]]

\* dispose() up to the end of `await this.stopBroadcast()`: with no advertiser
\* nothing is awaited and the instance is destroyed in the same step.
EL_dispose ==
    /\ platform = "el"
    /\ nCloses < MaxCloses
    /\ nCloses' = nCloses + 1
    /\ overlap' = (overlap \/ Awaiting)
    /\ IF advertiser # 0
         THEN /\ net' = Unpublish(net, advertiser)
              /\ closePc' = [closePc EXCEPT ![nCloses + 1] = "inStop"]
              /\ UNCHANGED browse
         ELSE /\ net' = DestroyNet(net)
              /\ browse' = DestroyBrowse(browse)
              /\ closePc' = [closePc EXCEPT ![nCloses + 1] = "done"]
    /\ UNCHANGED <<platform, useNW, nCalls, target, delivered, last, resolvedOk,
                   resolvers, events, hard, p3Vars, iosVars, andVars, elVars,
                   nwBrowser, lateFound>>
    /\ UNCHANGED <<nStarts, nStops, startOut, startCount, startPc, stopPc,
                   refVars, reqVars, nameVars>>
    /\ UNCHANGED fVars

\* The stop callback dispose k awaits fires: `this.advertiser = undefined`,
\* then this.bonjour.destroy().
EL_disposeResume(k) ==
    /\ platform = "el"
    /\ closePc[k] = "inStop"
    /\ closePc' = [closePc EXCEPT ![k] = "done"]
    /\ advertiser' = 0
    /\ net' = DestroyNet(net)
    /\ browse' = DestroyBrowse(browse)
    /\ UNCHANGED <<platform, useNW, nCalls, target, delivered, last, resolvedOk,
                   resolvers, events, hard, p3Vars, iosVars, andVars, elVars,
                   nwBrowser, lateFound>>
    /\ UNCHANGED <<nStarts, nStops, startOut, startCount, startPc, stopPc, overlap,
                   publisher, service, publishCompletion, regListenerRef,
                   reqVars, nameVars>>
    /\ UNCHANGED <<nCloses, fVars>>

\* Bounds of the behaviours that run discovery, advertising and teardown side
\* by side, and the inputs drawn in them.
JointCalls == 2    \* discover calls
JointFound == 1    \* candidates resolved
JointStarts == 2   \* startBroadcast calls
JointStops == 1    \* stopBroadcast calls
JointTargets == {Nil, Some(NameA)}
JointNames == {NameA, NameB}
JointOutcomes == {[port |-> 80, host |-> "h1"]}
JointRaw == {Some(NameA)}
JointPorts == {80}

\* A call reaches the manager: the application is not torn down and the
\* bound of the behaviour is not used up.
MayDiscover == ~Closed /\ nCalls < JointCalls
MayStart == ~Closed /\ nStarts < JointStarts
MayStop == ~Closed /\ nStops < JointStops
MayReport == events < JointFound

JNext ==
    \/ \E name \in JointTargets : MayDiscover /\ P3_discover(name)
    \/ \E name \in JointNames, typeDot \in BOOLEAN, domEmpty \in BOOLEAN :
            MayReport /\ P3_browseResultsChanged(name, typeDot, domEmpty)
    \/ \E name \in JointNames, moreComing \in BOOLEAN : MayReport /\ P3_didFind(name, moreComing)
    \/ \E r \in DOMAIN resolvers, o \in JointOutcomes : P3_didResolve(r, o)
    \/ \E r \in DOMAIN resolvers : P3_didNotResolve(r)
    \/ P3_didNotSearch
    \/ P3_stateFailed
    \/ \E c \in Calls : P3_hardTimeoutFires(c)
    \/ P3_settleFires
    \/ \E id \in JointTargets : MayDiscover /\ IOS_discover(id)
    \/ \E name \in JointNames : MayReport /\ IOS_browseResultsChanged(name)
    \/ \E name \in JointNames, moreComing \in BOOLEAN : MayReport /\ IOS_didFind(name, moreComing)
    \/ \E name \in JointNames : IOS_didRemove(name)
    \/ \E r \in DOMAIN resolvers, o \in JointOutcomes : IOS_didResolve(r, o)
    \/ \E r \in DOMAIN resolvers : IOS_didNotResolve(r)
    \/ IOS_didNotSearch
    \/ IOS_stateFailed
    \/ \E c \in Calls : IOS_hardTimeoutFires(c)
    \/ IOS_settleFires
    \/ \E t \in JointTargets : MayDiscover /\ AND_discover(t)
    \/ \E c \in Calls : AND_onStartDiscoveryFailed(c)
    \/ \E c \in Calls, name \in JointNames : MayReport /\ AND_onServiceFound(c, name)
    \/ \E r \in DOMAIN resolvers, o \in JointOutcomes : AND_onServiceResolved(r, o)
    \/ \E r \in DOMAIN resolvers : AND_onResolveFailed(r)
    \/ \E c \in Calls : AND_timeoutFires(c)
    \/ \E c \in Calls : AND_finally(c)
    \/ \E id \in JointTargets : MayDiscover /\ EL_discover(id)
    \/ \E id \in JointTargets : MayDiscover /\ EL_discoverThrows(id)
    \/ \E c \in Calls, name \in JointNames, o \in JointOutcomes : MayReport /\ EL_up(c, name, o)
    \/ \E c \in Calls : EL_timerFires(c)
    \/ \E c \in Calls : EL_browserError(c)
    \/ \E raw \in JointRaw, port \in JointPorts : MayStart /\ P3_startBroadcast(raw, port)
    \/ MayStop /\ P3_stopBroadcast
    \/ \E i \in Starts : P3_netServiceDidPublish(i, pubName[i])
    \/ \E i \in Starts : P3_didNotPublish(i)
    \/ \E raw \in JointRaw, port \in JointPorts : MayStart /\ IOS_startBroadcast(raw, port)
    \/ MayStop /\ IOS_stopBroadcast
    \/ \E i \in Starts : IOS_netServiceDidPublish(i, pubName[i])
    \/ \E i \in Starts : IOS_didNotPublish(i)
    \/ \E raw \in JointRaw, port \in JointPorts : MayStart /\ AND_startBroadcast(raw, port)
    \/ MayStop /\ AND_stopBroadcast
    \/ \E i \in Starts : AND_onServiceRegistered(i, pubName[i])
    \/ \E i \in Starts : AND_onRegistrationFailed(i)
    \/ \E raw \in JointRaw, port \in JointPorts : MayStart /\ EL_startBroadcast(raw, port, TRUE)
    \/ \E i \in Starts : EL_startResume(i)
    \/ MayStop /\ EL_stopBroadcast
    \/ \E k \in Stops : EL_stopResume(k)
    \/ \E i \in Starts : EL_onUp(i, pubName[i])
    \/ \E i \in Starts : EL_onError(i)
    \/ AND_handleOnDestroy
    \/ \E k \in Closes : EL_disposeResume(k)
    \/ EL_dispose

JSpec == Init /\ [][JNext]_vars

\* C37: discovery and advertisement do not interfere. Outside teardown, no
\* step changes both sides: a discover call, discovery event, timer or finish
\* that changes the discovery state leaves the advertisement state and the
\* transport's services as they are, and a startBroadcast, stopBroadcast or
\* publish callback that changes the advertisement state leaves every
\* discovery session, its timers and its result as they are.
C37_NoInterference ==
    [][(tVars' = tVars) => (dVars' = dVars \/ bVars' = bVars)]_vars

\* A discovery that found a candidate has delivered its result, and a second
\* one is browsing, while the advertisement published before is up.
C37_Witness ==
    /\ nCloses = 0
    /\ nCalls = 2 /\ delivered[1] = 1 /\ browse[2] = "active"
    /\ events >= 1
    /\ \E i \in Starts : net[i] = "up" /\ startOut[i] = "success"

\* Nothing of the application is left at the transport.
Clean == Published(net) = {} /\ \A c \in Calls : browse[c] # "active"

====
